---- MODULE Spec2Model ----
(***************************************************************************)
(* Academic knowledge graph of mcp-crawl4ai-rag.                           *)
(*                                                                         *)
(* AcademicGraphBuilder (src/src/academic_graph_builder.py) writes the     *)
(* graph store: nodes by MERGE, relationships by MATCH .. MERGE, one       *)
(* auto-commit statement per session.run.  GraphEnhancedAcademicPlanner    *)
(* (src/src/graph_enhanced_tools.py) and the tools of                      *)
(* src/src/crawl4ai_mcp.py read it.                                        *)
(*                                                                         *)
(* A course code "CS 1400" is the pair <<"CS", 1400>> of its prefix and    *)
(* its number.  The graph store is a multigraph: nodes and relationships   *)
(* are bags, so that a statement that creates instead of merging shows.    *)
(***************************************************************************)
EXTENDS Integers, Sequences, FiniteSets, Bags, TLC

VARIABLES
    nodes,       \* bag of nodes [label, key] of the graph store
    rels,        \* bag of relationships [type, from, to]
    courseProps, \* properties SET on Course nodes, by code
    deptProps,   \* properties SET on Department nodes, by prefix
    pc,          \* position of the running build, "idle" when none runs
    idx,         \* index of the next item of the running loop
    curE,        \* academic_data of the running build
    builds,      \* number of builds started
    lastE,       \* academic_data of the build that completed last, if the
                 \* graph was not written since
    rerun,       \* the running build repeats the build that completed last
    startGraph,  \* nodes and relationships when the repeating build began
    req,         \* the call made last
    out,         \* what that call returned
    tables,      \* rows of the relational academic tables, a bag per table
    tablesBefore, \* the tables when the population run made last began
    crawled,     \* academic_data extracted from the crawled pages
    runs         \* number of population runs made

vars == <<nodes, rels, courseProps, deptProps, pc, idx, curE, builds,
          lastE, rerun, startGraph, req, out, tables, tablesBefore, crawled,
          runs>>

graphVars == <<nodes, rels, courseProps, deptProps>>
buildVars == <<pc, idx, curE, builds, lastE, rerun, startGraph>>
planVars == <<req, out>>
storeVars == <<tables, tablesBefore, crawled, runs>>

-----------------------------------------------------------------------------
(* Bounds *)

MaxBuilds == 2
MaxPrereqs == 1
MaxEdges == 3
MaxLen == 3

-----------------------------------------------------------------------------
(* Catalog universe of the builds *)

Range(s) == {s[i] : i \in 1..Len(s)}

\* Course codes a crawled page can list, in catalog order.
CodeOrder == << <<"CS", 1400>>, <<"MATH", 1050>> >>
Codes == {CodeOrder[i] : i \in 1..Len(CodeOrder)}
\* Department names (title-cased URL slugs), in page order.
DeptOrder == << "Computer Science" >>
\* Course prefixes a page's most frequent code can carry.
Prefixes == {"CS", "MATH"}
\* Program names, in page order.
ProgramOrder == << "Bachelor of Science" >>
DeptNames == {DeptOrder[i] : i \in 1..Len(DeptOrder)}
UniversityName == "Utah Tech University"

-----------------------------------------------------------------------------
(* Entity extraction: the records of academic_data *)

\* Every course is lower division.
AllLowerDivision(number) == "lower_division"

\* _extract_courses_from_content: the level of a course number.
CourseLevel(number) ==
    IF number >= 3000 THEN "upper_division"
    ELSE IF number >= 5000 THEN "graduate"
    ELSE "lower_division"

\* credits when the heading carries no "N Hours".
DefaultCredits == 3

\* CourseInfo as _extract_courses_from_content builds it.
CourseInfo(code, credits, prerequisites) ==
    [code |-> code, prefix |-> code[1], number |-> code[2],
     credits |-> credits, level |-> CourseLevel(code[2]),
     prerequisites |-> prerequisites]

\* DepartmentInfo as _extract_departments_from_content builds it.
DepartmentInfo(name, prefix) == [name |-> name, prefix |-> prefix]

\* ProgramInfo as _extract_programs_from_content builds it; department is
\* the name _extract_department_from_url derives from the page's URL.
ProgramInfo(name, department) == [name |-> name, department |-> department]

\* _extract_department_prefix: the static table, else the first four letters
\* of the first word.
ExtractDepartmentPrefix(department_name) ==
    CASE department_name = "Computer Science" -> "CS"
      [] department_name = "Mathematics" -> "MATH"
      [] department_name = "Unknown Department" -> "UNKN"
      [] OTHER -> "ENGI"

\* Duplicate-free lists over S of length at most n: what _extract_prerequisites
\* returns (it appends a code only if not yet in the list).
RECURSIVE ListsNoDup(_, _)
ListsNoDup(S, n) ==
    IF n = 0 THEN {<<>>}
    ELSE LET shorter == ListsNoDup(S, n - 1)
         IN  shorter \cup
             {Append(l, x) : <<l, x>> \in
                 {<<l, x>> \in shorter \X S :
                     Len(l) = n - 1 /\ \A i \in 1..Len(l) : l[i] # x}}

\* The dicts with keys among S and values in V.
Dicts(S, V) == UNION {[K -> V] : K \in SUBSET S}

\* The keys of dict f in the order of `order`.
RECURSIVE DictKeys(_, _, _)
DictKeys(order, f, i) ==
    IF i > Len(order) THEN <<>>
    ELSE (IF order[i] \in DOMAIN f THEN <<order[i]>> ELSE <<>>)
         \o DictKeys(order, f, i + 1)

MakeCourse(code, prerequisites) == CourseInfo(code, DefaultCredits, prerequisites)

\* The academic_data values _extract_academic_data can return for the
\* catalog universe: every choice of courses with their prerequisite lists,
\* departments with their main prefix, programs with their department.
EntitySets ==
    {LET kc == DictKeys(CodeOrder, fc, 1)
         kd == DictKeys(DeptOrder, fd, 1)
         kp == DictKeys(ProgramOrder, fp, 1)
     IN  [courses |-> [i \in 1..Len(kc) |-> MakeCourse(kc[i], fc[kc[i]])],
          departments |-> [i \in 1..Len(kd) |-> DepartmentInfo(kd[i], fd[kd[i]])],
          programs |-> [i \in 1..Len(kp) |-> ProgramInfo(kp[i], fp[kp[i]])]] :
        <<fc, fd, fp>> \in
            Dicts(Codes, ListsNoDup(Codes, MaxPrereqs))
            \X Dicts(DeptNames, Prefixes)
            \X Dicts(Range(ProgramOrder), DeptNames)}

-----------------------------------------------------------------------------
(* The graph store *)

Node(label, key) == [label |-> label, key |-> key]
Rel(type, from, to) == [type |-> type, from |-> from, to |-> to]

\* CREATE (n:Label {key}): a new node whatever the store holds.
CreateNode(ns, label, key) == ns (+) SetToBag({Node(label, key)})

\* MERGE (n:Label {key}): the node is created only if none matches.
MergeNode(ns, label, key) ==
    IF CopiesIn(Node(label, key), ns) > 0 THEN ns
    ELSE ns (+) SetToBag({Node(label, key)})

\* A pattern that matches every key.
MatchAny(ns, label, key) == TRUE

\* MATCH (n:Label {key}): whether a row is produced.
Match(ns, label, key) == CopiesIn(Node(label, key), ns) > 0

\* CREATE (a)-[:TYPE]->(b).
CreateRel(rs, type, from, to) == rs (+) SetToBag({Rel(type, from, to)})

\* MERGE (a)-[:TYPE]->(b) on bound nodes a and b.
MergeRel(rs, type, from, to) ==
    IF CopiesIn(Rel(type, from, to), rs) > 0 THEN rs
    ELSE rs (+) SetToBag({Rel(type, from, to)})

RECURSIVE MergeRels(_, _, _)
\* MERGE of one relationship per row of a result, in any order.
MergeRels(rs, type, pairs) ==
    IF pairs = {} THEN rs
    ELSE LET p == CHOOSE q \in pairs : TRUE
         IN  MergeRels(MergeRel(rs, type, p[1], p[2]), type, pairs \ {p})

EmptyGraph == [nodes |-> EmptyBag, rels |-> EmptyBag]

-----------------------------------------------------------------------------
(* build_academic_graph: one action per statement sent to the graph store *)

Put(f, k, v) == [x \in DOMAIN f \cup {k} |-> IF x = k THEN v ELSE f[x]]

EmptyE == [courses |-> <<>>, departments |-> <<>>, programs |-> <<>>]

RECURSIVE PrereqPairs(_, _)
\* The (course, prerequisite) statements of the prerequisite loop, in order.
PrereqPairs(courses, i) ==
    IF i > Len(courses) THEN <<>>
    ELSE [k \in 1..Len(courses[i].prerequisites) |->
             [course |-> courses[i].code,
              prereq |-> courses[i].prerequisites[k]]]
         \o PrereqPairs(courses, i + 1)

\* The courses are linked to their departments before they are upserted.
LinkBeforeUpsertOrder ==
    <<"university", "departments", "link_courses", "courses", "programs",
      "link_prereqs", "link_programs", "link_university">>

\* The loops of _populate_neo4j and _create_relationships, in program order.
PhaseOrder ==
    <<"university", "departments", "courses", "programs", "link_courses",
      "link_prereqs", "link_programs", "link_university">>

\* Number of statements a loop sends for academic_data E.
PhaseLen(E, phase) ==
    CASE phase = "university" -> 1
      [] phase = "departments" -> Len(E.departments)
      [] phase = "courses" -> Len(E.courses)
      [] phase = "programs" -> Len(E.programs)
      [] phase = "link_courses" -> Len(E.courses)
      [] phase = "link_prereqs" -> Len(PrereqPairs(E.courses, 1))
      [] phase = "link_programs" -> Len(E.programs)
      [] phase = "link_university" -> 1

RECURSIVE PhaseFrom(_, _)
\* The first loop at or after position k that has a statement to send.
PhaseFrom(E, k) ==
    IF k > Len(PhaseOrder) THEN "idle"
    ELSE IF PhaseLen(E, PhaseOrder[k]) > 0 THEN PhaseOrder[k]
    ELSE PhaseFrom(E, k + 1)

PhaseIndex(phase) == CHOOSE k \in 1..Len(PhaseOrder) : PhaseOrder[k] = phase

\* Control after statement idx of the running loop.
Advance ==
    IF idx < PhaseLen(curE, pc)
    THEN /\ pc' = pc
         /\ idx' = idx + 1
         /\ UNCHANGED <<curE, lastE>>
    ELSE LET next == PhaseFrom(curE, PhaseIndex(pc) + 1)
         IN  /\ pc' = next
             /\ idx' = 1
             /\ curE' = IF next = "idle" THEN EmptyE ELSE curE
             /\ lastE' = IF next = "idle" THEN {curE} ELSE lastE

\* build_academic_graph is called: schema, extraction, then the first write.
StartBuild ==
    /\ pc = "idle"
    /\ builds < MaxBuilds
    /\ \E E \in EntitySets :
          /\ curE' = E
          /\ rerun' = (E \in lastE)
          /\ startGraph' = IF E \in lastE
                           THEN [nodes |-> nodes, rels |-> rels]
                           ELSE EmptyGraph
    /\ pc' = "university"
    /\ idx' = 1
    /\ builds' = builds + 1
    /\ lastE' = {}
    /\ UNCHANGED <<graphVars, planVars, storeVars>>

\* MERGE (u:University {name: "Utah Tech University"}).
PopulateUniversity ==
    /\ pc = "university"
    /\ nodes' = MergeNode(nodes, "University", UniversityName)
    /\ Advance
    /\ UNCHANGED <<rels, courseProps, deptProps, builds, rerun, startGraph, planVars, storeVars>>

\* MERGE (d:Department {prefix}) SET d.name = ...
PopulateDepartment ==
    /\ pc = "departments"
    /\ LET dept_info == curE.departments[idx]
       IN  /\ nodes' = MergeNode(nodes, "Department", dept_info.prefix)
           /\ deptProps' = Put(deptProps, dept_info.prefix, [name |-> dept_info.name])
    /\ Advance
    /\ UNCHANGED <<rels, courseProps, builds, rerun, startGraph, planVars, storeVars>>

\* MERGE (c:Course {code}) SET c.prefix = ..., c.credits = ..., c.level = ...
PopulateCourse ==
    /\ pc = "courses"
    /\ LET course_info == curE.courses[idx]
       IN  /\ nodes' = MergeNode(nodes, "Course", course_info.code)
           /\ courseProps' = Put(courseProps, course_info.code,
                                 [prefix |-> course_info.prefix,
                                  number |-> course_info.number,
                                  credits |-> course_info.credits,
                                  level |-> course_info.level])
    /\ Advance
    /\ UNCHANGED <<rels, deptProps, builds, rerun, startGraph, planVars, storeVars>>

\* MERGE (p:Program {name}) SET ...
PopulateProgram ==
    /\ pc = "programs"
    /\ nodes' = MergeNode(nodes, "Program", curE.programs[idx].name)
    /\ Advance
    /\ UNCHANGED <<rels, courseProps, deptProps, builds, rerun, startGraph, planVars, storeVars>>

\* MATCH (c:Course {code}) MATCH (d:Department {prefix})
\* MERGE (d)-[:OFFERS_COURSE]->(c) MERGE (c)-[:BELONGS_TO_DISCIPLINE]->(d).
LinkCourseDepartment ==
    /\ pc = "link_courses"
    /\ LET course_info == curE.courses[idx]
           c == Node("Course", course_info.code)
           d == Node("Department", course_info.prefix)
       IN  rels' = IF /\ Match(nodes, "Course", course_info.code)
                      /\ Match(nodes, "Department", course_info.prefix)
                   THEN MergeRel(MergeRel(rels, "OFFERS_COURSE", d, c),
                                 "BELONGS_TO_DISCIPLINE", c, d)
                   ELSE rels
    /\ Advance
    /\ UNCHANGED <<nodes, courseProps, deptProps, builds, rerun, startGraph, planVars, storeVars>>

\* MATCH (prereq:Course {code}) MATCH (course:Course {code})
\* MERGE (prereq)-[:PREREQUISITE_FOR]->(course).
LinkPrerequisite ==
    /\ pc = "link_prereqs"
    /\ LET pair == PrereqPairs(curE.courses, 1)[idx]
       IN  rels' = IF /\ Match(nodes, "Course", pair.prereq)
                      /\ Match(nodes, "Course", pair.course)
                   THEN MergeRel(rels, "PREREQUISITE_FOR",
                                 Node("Course", pair.prereq),
                                 Node("Course", pair.course))
                   ELSE rels
    /\ Advance
    /\ UNCHANGED <<nodes, courseProps, deptProps, builds, rerun, startGraph, planVars, storeVars>>

\* MATCH (p:Program {name}) MATCH (d:Department {prefix})
\* MERGE (d)-[:OFFERS_PROGRAM]->(p) MERGE (p)-[:BELONGS_TO_DEPARTMENT]->(d).
LinkProgramDepartment ==
    /\ pc = "link_programs"
    /\ LET program_info == curE.programs[idx]
           dept_prefix == ExtractDepartmentPrefix(program_info.department)
           p == Node("Program", program_info.name)
           d == Node("Department", dept_prefix)
       IN  rels' = IF /\ Match(nodes, "Program", program_info.name)
                      /\ Match(nodes, "Department", dept_prefix)
                   THEN MergeRel(MergeRel(rels, "OFFERS_PROGRAM", d, p),
                                 "BELONGS_TO_DEPARTMENT", p, d)
                   ELSE rels
    /\ Advance
    /\ UNCHANGED <<nodes, courseProps, deptProps, builds, rerun, startGraph, planVars, storeVars>>

\* MATCH (u:University), (d:Department) WHERE NOT EXISTS((u)-[:HAS_DEPARTMENT]->(d))
\* MERGE (u)-[:HAS_DEPARTMENT]->(d).
LinkUniversityDepartments ==
    /\ pc = "link_university"
    /\ LET rows == {<<u, d>> \in BagToSet(nodes) \X BagToSet(nodes) :
                       u.label = "University" /\ d.label = "Department"}
       IN  rels' = MergeRels(rels, "HAS_DEPARTMENT", rows)
    /\ Advance
    /\ UNCHANGED <<nodes, courseProps, deptProps, builds, rerun, startGraph, planVars, storeVars>>

\* The build stops between two statements (a store error that is not caught
\* in the node loops, or the process ending).
AbortBuild ==
    /\ pc # "idle"
    /\ pc' = "idle"
    /\ idx' = 1
    /\ curE' = EmptyE
    /\ lastE' = {}
    /\ rerun' = FALSE
    /\ startGraph' = EmptyGraph
    /\ UNCHANGED <<graphVars, builds, planVars, storeVars>>

NoCall == [op |-> "none"]

\* The relational tables are empty and no population run was made.
EmptyTables ==
    [academic_departments |-> EmptyBag,
     academic_courses |-> EmptyBag,
     academic_programs |-> EmptyBag]

StoreAtRest ==
    /\ tables = EmptyTables
    /\ tablesBefore = EmptyTables
    /\ crawled = EmptyE
    /\ runs = 0

Init ==
    /\ nodes = EmptyBag
    /\ rels = EmptyBag
    /\ courseProps = << >>
    /\ deptProps = << >>
    /\ pc = "idle"
    /\ idx = 1
    /\ curE = EmptyE
    /\ builds = 0
    /\ lastE = {}
    /\ rerun = FALSE
    /\ startGraph = EmptyGraph
    /\ req = NoCall
    /\ out = NoCall
    /\ StoreAtRest

Next ==
    \/ StartBuild
    \/ PopulateUniversity
    \/ PopulateDepartment
    \/ PopulateCourse
    \/ PopulateProgram
    \/ LinkCourseDepartment
    \/ LinkPrerequisite
    \/ LinkProgramDepartment
    \/ LinkUniversityDepartments
    \/ AbortBuild

Spec == Init /\ [][Next]_vars

-----------------------------------------------------------------------------
(* GraphEnhancedAcademicPlanner: what the planner reads from the graph *)

\* MATCH (course:Course {code: $course_code}) returns a record.
CourseFound(course_code) == CopiesIn(Node("Course", course_code), nodes) > 0

\* collect(prereq.code) over (prereq:Course)-[:PREREQUISITE_FOR]->(course).
Prerequisites(course_code) ==
    {r.from.key : r \in {x \in BagToSet(rels) :
                            /\ x.type = "PREREQUISITE_FOR"
                            /\ x.to = Node("Course", course_code)}}

\* The value of a property no statement has SET.
Null == "null"

\* record["credits"] or 3
DefaultPlanCredits == 3
CreditsOf(course_code) ==
    LET props == courseProps[course_code]
    IN  IF "credits" \in DOMAIN props /\ props.credits # 0
        THEN props.credits
        ELSE DefaultPlanCredits

\* record["level"]
LevelOf(course_code) ==
    LET props == courseProps[course_code]
    IN  IF "level" \in DOMAIN props THEN props.level ELSE Null

\* record["department"]
DepartmentOf(course_code) ==
    LET props == courseProps[course_code]
    IN  IF "department" \in DOMAIN props THEN props.department ELSE Null

RECURSIVE SumCredits(_, _)
\* sum(info["credits"] for info in list)
SumCredits(list, i) ==
    IF i > Len(list) THEN 0 ELSE CreditsOf(list[i]) + SumCredits(list, i + 1)

RECURSIVE Uniq(_, _, _)
\* The keys of a dict filled from `list` in order: each element once, at its
\* first place.
Uniq(list, i, acc) ==
    IF i > Len(list) THEN acc
    ELSE Uniq(list, i + 1,
              IF list[i] \in Range(acc) THEN acc ELSE Append(acc, list[i]))

IsUpperDivision(course_code) == LevelOf(course_code) = "upper-division"

\* The aggregate statistics over the values of a dict of found courses.
StatsOf(found) ==
    [total_courses |-> Len(found),
     total_credits |-> SumCredits(found, 1),
     upper_division_credits |-> SumCredits(SelectSeq(found, IsUpperDivision), 1),
     disciplines |-> {DepartmentOf(found[i]) : i \in 1..Len(found)}]

-----------------------------------------------------------------------------
(* validate_course_sequence *)

\* The course is never recorded as completed.
CompletedNever(completed_courses, course_code) == completed_courses

\* A course is counted as completed when its turn has passed.
CompletedAfter(completed_courses, course_code) ==
    completed_courses \cup {course_code}

RECURSIVE ViolationLoop(_, _, _, _)
\* for course_code in course_codes: ... violations.append(...)
ViolationLoop(course_codes, i, completed_courses, violations) ==
    IF i > Len(course_codes) THEN violations
    ELSE LET course_code == course_codes[i]
         IN  IF CourseFound(course_code)
             THEN LET missing_prereqs ==
                          Prerequisites(course_code) \ completed_courses
                  IN  ViolationLoop(
                          course_codes, i + 1,
                          CompletedAfter(completed_courses, course_code),
                          IF missing_prereqs # {}
                          THEN Append(violations,
                                      [course |-> course_code,
                                       missing_prerequisites |-> missing_prereqs])
                          ELSE violations)
             ELSE ViolationLoop(course_codes, i + 1, completed_courses, violations)

ValidateCourseSequence(course_codes) ==
    LET course_info == SelectSeq(Uniq(course_codes, 1, <<>>), CourseFound)
        violations == ViolationLoop(course_codes, 1, {}, <<>>)
    IN  [op |-> "validate",
         valid |-> Len(violations) = 0,
         violations |-> violations,
         statistics |-> StatsOf(course_info)]

-----------------------------------------------------------------------------
(* _topological_sort *)

\* prerequisite_graph.get(course, [])
PGet(prerequisite_graph, course) ==
    IF course \in DOMAIN prerequisite_graph THEN prerequisite_graph[course] ELSE {}

\* No course waits for another.
RelaxNothing(courses, prerequisite_graph, current, i, in_degree, queue) ==
    [in_degree |-> in_degree, queue |-> queue]

\* An in-degree table that counts nothing.
NoInDegree(courses, prerequisite_graph, i, in_degree) == in_degree

RECURSIVE InDegree(_, _, _, _)
\* for course in courses: for prereq in ...: if prereq in in_degree: += 1
InDegree(courses, prerequisite_graph, i, in_degree) ==
    IF i > Len(courses) THEN in_degree
    ELSE LET course == courses[i]
             hits == Cardinality({prereq \in PGet(prerequisite_graph, course) :
                                     prereq \in DOMAIN in_degree})
         IN  InDegree(courses, prerequisite_graph, i + 1,
                      [in_degree EXCEPT ![course] = @ + hits])

RECURSIVE Relax(_, _, _, _, _, _)
\* for course in courses: if current in ...: in_degree[course] -= 1 ...
Relax(courses, prerequisite_graph, current, i, in_degree, queue) ==
    IF i > Len(courses) THEN [in_degree |-> in_degree, queue |-> queue]
    ELSE LET course == courses[i]
         IN  IF current \in PGet(prerequisite_graph, course)
             THEN LET degree == in_degree[course] - 1
                  IN  Relax(courses, prerequisite_graph, current, i + 1,
                            [in_degree EXCEPT ![course] = degree],
                            IF degree = 0 THEN Append(queue, course) ELSE queue)
             ELSE Relax(courses, prerequisite_graph, current, i + 1,
                        in_degree, queue)

RECURSIVE Kahn(_, _, _, _, _)
\* while queue: current = queue.pop(0); result.append(current); ...
Kahn(courses, prerequisite_graph, in_degree, queue, result) ==
    IF queue = <<>> THEN result
    ELSE LET current == Head(queue)
             r == Relax(courses, prerequisite_graph, current, 1,
                        in_degree, Tail(queue))
         IN  Kahn(courses, prerequisite_graph, r.in_degree, r.queue,
                  Append(result, current))

TopologicalSort(courses, prerequisite_graph) ==
    LET keys == Uniq(courses, 1, <<>>)
        in_degree == InDegree(courses, prerequisite_graph, 1,
                              [course \in Range(courses) |-> 0])
        IsZero(course) == in_degree[course] = 0
    IN  Kahn(courses, prerequisite_graph, in_degree, SelectSeq(keys, IsZero), <<>>)

-----------------------------------------------------------------------------
(* recommend_course_sequence *)

\* The next course always joins the current semester.
NeverNewSemester(current_credits, credits, max_credits, current_semester) == FALSE

\* if current_credits + course.credits > max_credits_per_semester
\*    and current_semester
StartsNewSemester(current_credits, credits, max_credits, current_semester) ==
    /\ current_credits + credits > max_credits
    /\ current_semester # <<>>

RECURSIVE Pack(_, _, _, _, _, _)
\* for course_code in sequence: ... ; if current_semester: append it
Pack(sequence, i, max_credits, semester_sequence, current_semester, current_credits) ==
    IF i > Len(sequence)
    THEN IF current_semester # <<>>
         THEN Append(semester_sequence, current_semester)
         ELSE semester_sequence
    ELSE LET course_code == sequence[i]
         IN  IF ~CourseFound(course_code)
             THEN Pack(sequence, i + 1, max_credits,
                       semester_sequence, current_semester, current_credits)
             ELSE IF StartsNewSemester(current_credits, CreditsOf(course_code),
                                       max_credits, current_semester)
             THEN Pack(sequence, i + 1, max_credits,
                       Append(semester_sequence, current_semester),
                       <<course_code>>, CreditsOf(course_code))
             ELSE Pack(sequence, i + 1, max_credits,
                       semester_sequence, Append(current_semester, course_code),
                       current_credits + CreditsOf(course_code))

\* The planner's defaults: max_credits_per_semester = 15, max_semesters = 8.
DefaultMaxCredits == 15
DefaultMaxSemesters == 8

\* GraphEnhancedAcademicPlanner.recommend_course_sequence; max_semesters is
\* read nowhere in its body.
PlannerRecommend(target_courses, max_credits_per_semester, max_semesters) ==
    LET all_courses == SelectSeq(Uniq(target_courses, 1, <<>>), CourseFound)
        prerequisite_graph ==
            [course_code \in Range(all_courses) |-> Prerequisites(course_code)]
        sequence == TopologicalSort(target_courses, prerequisite_graph)
        stats == StatsOf(all_courses)
    IN  [op |-> "recommend",
         courses |-> all_courses,
         total_credits |-> stats.total_credits,
         upper_division_credits |-> stats.upper_division_credits,
         disciplines |-> stats.disciplines,
         prerequisite_violations |-> <<>>,
         sequence |-> sequence,
         recommended_sequence |->
             Pack(sequence, 1, max_credits_per_semester, <<>>, <<>>, 0)]

\* The recommend_course_sequence tool: the parsed course list goes to the
\* planner with max_semesters as its second positional argument.
ToolRecommend(courses, max_semesters) ==
    LET plan == PlannerRecommend(courses, max_semesters, DefaultMaxSemesters)
    IN  [op |-> "tool_recommend",
         target_courses |-> courses,
         estimated_semesters |-> Len(plan.recommended_sequence),
         semester_sequence |->
             [i \in 1..Len(plan.recommended_sequence) |->
                 [semester |-> i,
                  courses |-> plan.recommended_sequence[i],
                  total_credits |-> 3 * Len(plan.recommended_sequence[i])]],
         prerequisite_violations |-> plan.prerequisite_violations,
         plan |-> plan]

-----------------------------------------------------------------------------
(* analyze_degree_progress *)

\* The IAP requirements: 120 credits, 40 upper-division credits, 3 disciplines.
RequiredCredits == 120
RequiredUpperDivision == 40
RequiredDisciplines == 3

Max(a, b) == IF a >= b THEN a ELSE b

AnalyzeDegreeProgress(completed_courses, target_courses) ==
    LET InCompleted(code) == code \in Range(completed_courses)
        NotCompleted(code) == ~InCompleted(code)
        completed_found == SelectSeq(completed_courses, CourseFound)
        completed_credits == SumCredits(completed_found, 1)
        completed_upper_division ==
            SumCredits(SelectSeq(completed_found, IsUpperDivision), 1)
        completed_disciplines ==
            {DepartmentOf(completed_found[i]) : i \in 1..Len(completed_found)}
        remaining_courses == SelectSeq(target_courses, NotCompleted)
        remaining_found == SelectSeq(remaining_courses, CourseFound)
        remaining_credits == SumCredits(remaining_found, 1)
        remaining_upper_division ==
            SumCredits(SelectSeq(remaining_found, IsUpperDivision), 1)
        total_credits == completed_credits + remaining_credits
        total_upper_division ==
            completed_upper_division + remaining_upper_division
        meets_credit_requirement == total_credits >= RequiredCredits
        meets_upper_division_requirement ==
            total_upper_division >= RequiredUpperDivision
        meets_discipline_requirement ==
            Cardinality(completed_disciplines) >= RequiredDisciplines
    IN  [op |-> "analyze",
         completed |->
             [courses |-> Len(completed_courses),
              credits |-> completed_credits,
              upper_division_credits |-> completed_upper_division,
              disciplines |-> completed_disciplines],
         remaining |->
             [course_list |-> remaining_courses,
              credits |-> remaining_credits,
              upper_division_credits |-> remaining_upper_division],
         totals |->
             [credits |-> total_credits,
              upper_division_credits |-> total_upper_division],
         iap_requirements |->
             [total_credits |->
                  [current |-> total_credits,
                   met |-> meets_credit_requirement,
                   remaining |-> Max(0, RequiredCredits - total_credits)],
              upper_division_credits |->
                  [current |-> total_upper_division,
                   met |-> meets_upper_division_requirement,
                   remaining |-> Max(0, RequiredUpperDivision - total_upper_division)],
              disciplines |->
                  [current |-> Cardinality(completed_disciplines),
                   met |-> meets_discipline_requirement,
                   remaining |-> Max(0, RequiredDisciplines
                                        - Cardinality(completed_disciplines))]],
         ready_to_graduate |->
             /\ meets_credit_requirement
             /\ meets_upper_division_requirement
             /\ meets_discipline_requirement]

-----------------------------------------------------------------------------
(* get_prerequisite_chain, find_alternative_courses *)

\* course.credits as the graph stores it.
StoredCredits(course_code) == courseProps[course_code].credits

\* The path may end at any course.
AnyTarget(code, course_code) == TRUE

\* (target:Course {code: $course_code})
TargetIs(code, course_code) == code = course_code

\* The relationship (p)-[:PREREQUISITE_FOR]->(c) lies on the path.
OnPath(path, p, c) ==
    \E i \in 1..(Len(path) - 1) : path[i] = p /\ path[i + 1] = c

\* The paths that put one more relationship in front of a path of `layer`;
\* a path traverses no relationship twice.
Prepend(layer) ==
    {<<x[1]>> \o x[2] :
        x \in {y \in {n.key : n \in {m \in BagToSet(nodes) : m.label = "Course"}}
                      \X layer :
                  /\ y[1] \in Prerequisites(y[2][1])
                  /\ ~OnPath(y[2], y[1], y[2][1])}}

\* -[:PREREQUISITE_FOR*1..10]->
MaxPathLength == 10
DefaultMaxDepth == 10

RECURSIVE PathLayers(_, _)
\* The paths of `layer` and their extensions by up to n - 1 relationships.
PathLayers(layer, n) ==
    IF n = 0 \/ layer = {} THEN {}
    ELSE layer \cup PathLayers(Prepend(layer), n - 1)

RECURSIVE SumStoredCredits(_, _)
\* sum(credit_path)
SumStoredCredits(path, i) ==
    IF i > Len(path) THEN 0
    ELSE StoredCredits(path[i]) + SumStoredCredits(path, i + 1)

RECURSIVE OrderByDepthDesc(_)
\* ORDER BY depth DESC; the store orders paths of equal depth.
OrderByDepthDesc(paths) ==
    IF paths = {} THEN <<>>
    ELSE LET p == CHOOSE q \in paths : \A r \in paths : Len(r) <= Len(q)
         IN  <<p>> \o OrderByDepthDesc(paths \ {p})

\* PrerequisitePath(target_course, path, total_credits, semesters_needed)
PrerequisitePath(course_code, course_path) ==
    LET depth == Len(course_path) - 1
    IN  [target_course |-> course_code,
         path |-> course_path,
         total_credits |-> SumStoredCredits(course_path, 1),
         semesters_needed |->
             IF (depth + 1) \div 2 >= 1 THEN (depth + 1) \div 2 ELSE 1]

GetPrerequisiteChain(course_code, max_depth) ==
    LET first == {<<p, t>> : <<p, t>> \in
                     {e \in {n.key : n \in {m \in BagToSet(nodes) : m.label = "Course"}}
                            \X {n.key : n \in {m \in BagToSet(nodes) : m.label = "Course"}} :
                         /\ TargetIs(e[2], course_code)
                         /\ e[1] \in Prerequisites(e[2])}}
        matched == PathLayers(first, MaxPathLength)
        kept == {p \in matched : Len(p) - 1 <= max_depth}
        ordered == OrderByDepthDesc(kept)
    IN  [op |-> "chain",
         paths |-> [i \in 1..Len(ordered) |->
                       PrerequisitePath(course_code, ordered[i])]]

\* Every course code of the catalogs, in the order of ORDER BY code.
CodeSortOrder ==
    << <<"BIOL", 3450>>, <<"CS", 1400>>, <<"CS", 1410>>, <<"CS", 2420>>,
       <<"CS", 3150>>, <<"ENGL", 1010>>, <<"MATH", 1050>> >>

DefaultLimit == 10

\* CourseNode(code, title, credits, level, department, description, prerequisites)
CourseNode(code) ==
    [code |-> code,
     credits |-> CreditsOf(code),
     level |-> LevelOf(code),
     department |-> DepartmentOf(code),
     prerequisites |-> Prerequisites(code)]

FindAlternativeCourses(course_code, same_department, limit) ==
    IF ~CourseFound(course_code)
    THEN [op |-> "alternatives", alternatives |-> <<>>]
    ELSE LET level == LevelOf(course_code)
             department == DepartmentOf(course_code)
             credits == StoredCredits(course_code)
             Where(alt) ==
                 /\ CourseFound(alt)
                 /\ alt # course_code
                 /\ level # Null /\ LevelOf(alt) = level
                 /\ (same_department /\ department # Null)
                        => DepartmentOf(alt) = department
                 /\ credits # 0 => StoredCredits(alt) = credits
             rows == SelectSeq(CodeSortOrder, Where)
             limited == SubSeq(rows, 1, IF Len(rows) <= limit THEN Len(rows) ELSE limit)
         IN  [op |-> "alternatives",
              alternatives |-> [i \in 1..Len(limited) |-> CourseNode(limited[i])]]

-----------------------------------------------------------------------------
(* Planner calls on a built graph *)

\* The courses of the planning examples, in catalog order, and the credit
\* hours their headings can carry.
PlanOrder == << <<"CS", 1400>>, <<"CS", 1410>>, <<"CS", 2420>> >>
PlanCodes == Range(PlanOrder)
PlanCredits == {3, 9}
\* max_credits_per_semester values of planner calls, max_semesters values of
\* tool calls.
Caps == {DefaultMaxSemesters, DefaultMaxCredits}
SemesterChoices == {2, DefaultMaxSemesters}

\* Lists over S of length at most n.
Lists(S, n) == UNION {[1..k -> S] : k \in 0..n}

\* The graph builds leave for a catalog: the University node, a Course node
\* with the properties _populate_neo4j sets for every course of `credits`,
\* and the PREREQUISITE_FOR relationships `edges` (prerequisite, course).
BuiltGraph(credits, edges) ==
    [nodes |-> SetToBag({Node("University", UniversityName)}
                        \cup {Node("Course", c) : c \in DOMAIN credits}),
     rels |-> SetToBag({Rel("PREREQUISITE_FOR", Node("Course", e[1]),
                            Node("Course", e[2])) : e \in edges}),
     courseProps |-> [c \in DOMAIN credits |->
                         [prefix |-> c[1], number |-> c[2],
                          credits |-> credits[c], level |-> CourseLevel(c[2])]]]

\* No build runs while the planner is called.
BuildAtRest ==
    /\ pc = "idle"
    /\ idx = 1
    /\ curE = EmptyE
    /\ builds = 0
    /\ lastE = {}
    /\ rerun = FALSE
    /\ startGraph = EmptyGraph

InitPlan ==
    /\ \E credits \in Dicts(PlanCodes, PlanCredits) :
          \E edges \in {es \in SUBSET ((DOMAIN credits) \X (DOMAIN credits)) :
                           Cardinality(es) <= MaxEdges} :
              LET g == BuiltGraph(credits, edges)
              IN  /\ nodes = g.nodes
                  /\ rels = g.rels
                  /\ courseProps = g.courseProps
    /\ deptProps = << >>
    /\ BuildAtRest
    /\ req = NoCall
    /\ out = NoCall
    /\ StoreAtRest

\* planner.validate_course_sequence(course_codes)
CallValidate ==
    /\ req = NoCall
    /\ \E course_codes \in Lists(PlanCodes, MaxLen) :
          /\ req' = [op |-> "validate", course_codes |-> course_codes]
          /\ out' = ValidateCourseSequence(course_codes)
    /\ UNCHANGED <<graphVars, buildVars, storeVars>>

\* planner.recommend_course_sequence(target_courses, max_credits_per_semester)
CallRecommend ==
    /\ req = NoCall
    /\ \E target_courses \in Lists(PlanCodes, MaxLen) :
          \E max_credits_per_semester \in Caps :
              /\ req' = [op |-> "recommend",
                         target_courses |-> target_courses,
                         max_credits_per_semester |-> max_credits_per_semester]
              /\ out' = PlannerRecommend(target_courses, max_credits_per_semester,
                                         DefaultMaxSemesters)
    /\ UNCHANGED <<graphVars, buildVars, storeVars>>

\* The recommend_course_sequence tool with a non-empty course list.
CallToolRecommend ==
    /\ req = NoCall
    /\ \E courses \in Lists(PlanCodes, MaxLen) \ {<<>>} :
          \E max_semesters \in SemesterChoices :
              /\ req' = [op |-> "tool_recommend",
                         target_courses |-> courses,
                         max_semesters |-> max_semesters]
              /\ out' = ToolRecommend(courses, max_semesters)
    /\ UNCHANGED <<graphVars, buildVars, storeVars>>

\* The caller has its answer.
Return ==
    /\ req # NoCall
    /\ req' = NoCall
    /\ out' = NoCall
    /\ UNCHANGED <<graphVars, buildVars, storeVars>>

NextPlan ==
    \/ CallValidate
    \/ CallRecommend
    \/ CallToolRecommend
    \/ Return

SpecPlan == InitPlan /\ [][NextPlan]_vars

\* The courses of the degree-progress examples: four disciplines, two of them
\* with an upper-division course.
ProgressOrder ==
    << <<"BIOL", 3450>>, <<"CS", 3150>>, <<"ENGL", 1010>>, <<"MATH", 1050>> >>
ProgressCodes == Range(ProgressOrder)
ProgressCredits == {5, 39, 40}

\* The lists that name courses of `order` in order, each at most once.
SubLists(order) ==
    {DictKeys(order, f, 1) : f \in Dicts(Range(order), {TRUE})}

InitProgress ==
    /\ \E credits \in Dicts(ProgressCodes, ProgressCredits) :
          LET g == BuiltGraph(credits, {})
          IN  /\ nodes = g.nodes
              /\ rels = g.rels
              /\ courseProps = g.courseProps
    /\ deptProps = << >>
    /\ BuildAtRest
    /\ req = NoCall
    /\ out = NoCall
    /\ StoreAtRest

\* planner.analyze_degree_progress(completed_courses, target_courses)
CallAnalyze ==
    /\ req = NoCall
    /\ \E completed_courses \in SubLists(ProgressOrder) :
          \E target_courses \in SubLists(ProgressOrder) :
              /\ req' = [op |-> "analyze",
                         completed_courses |-> completed_courses,
                         target_courses |-> target_courses]
              /\ out' = AnalyzeDegreeProgress(completed_courses, target_courses)
    /\ UNCHANGED <<graphVars, buildVars, storeVars>>

NextProgress ==
    \/ CallAnalyze
    \/ Return

SpecProgress == InitProgress /\ [][NextProgress]_vars

\* max_depth and limit values of the query calls.
DepthChoices == {1, 2, DefaultMaxDepth}
LimitChoices == {1, DefaultLimit}

\* planner.get_prerequisite_chain(course_code, max_depth)
CallPrerequisiteChain ==
    /\ req = NoCall
    /\ \E course_code \in PlanCodes :
          \E max_depth \in DepthChoices :
              /\ req' = [op |-> "chain", course_code |-> course_code,
                         max_depth |-> max_depth]
              /\ out' = GetPrerequisiteChain(course_code, max_depth)
    /\ UNCHANGED <<graphVars, buildVars, storeVars>>

\* planner.find_alternative_courses(course_code, same_department, limit)
CallFindAlternatives ==
    /\ req = NoCall
    /\ \E course_code \in PlanCodes :
          \E same_department \in BOOLEAN :
              \E limit \in LimitChoices :
                  /\ req' = [op |-> "alternatives", course_code |-> course_code,
                             same_department |-> same_department, limit |-> limit]
                  /\ out' = FindAlternativeCourses(course_code, same_department, limit)
    /\ UNCHANGED <<graphVars, buildVars, storeVars>>

\* planner.analyze_degree_progress on the planning catalog.
CallAnalyzePlan ==
    /\ req = NoCall
    /\ \E completed_courses \in SubLists(PlanOrder) :
          \E target_courses \in SubLists(PlanOrder) :
              /\ req' = [op |-> "analyze",
                         completed_courses |-> completed_courses,
                         target_courses |-> target_courses]
              /\ out' = AnalyzeDegreeProgress(completed_courses, target_courses)
    /\ UNCHANGED <<graphVars, buildVars, storeVars>>

\* Every planning query, on every built graph of the planning catalog.
NextQuery ==
    \/ CallValidate
    \/ CallRecommend
    \/ CallAnalyzePlan
    \/ CallPrerequisiteChain
    \/ CallFindAlternatives
    \/ Return

SpecQuery == InitPlan /\ [][NextQuery]_vars

-----------------------------------------------------------------------------
(* Prerequisite chain queries on a long line of prerequisites *)

\* The longest line of courses of the chain queries.
MaxChain == 12

\* The i-th course of the line.
LineCourse(i) == <<"CS", 1000 + 10 * i>>

\* The graph the builds leave for a catalog of n courses in which every
\* course is the prerequisite of the next one, with the relationships `extra`.
LineGraph(n, extra) ==
    BuiltGraph([c \in {LineCourse(i) : i \in 1..n} |-> DefaultCredits],
               {<<LineCourse(i), LineCourse(i + 1)>> : i \in 1..(n - 1)} \cup extra)

\* The line alone, with a second path from its first to its last course, or
\* closed to a cycle.
InitChain ==
    /\ \E n \in 1..MaxChain :
          \E extra \in {{}, {<<LineCourse(1), LineCourse(n)>>},
                        {<<LineCourse(n), LineCourse(1)>>}} :
              LET g == LineGraph(n, extra)
              IN  /\ nodes = g.nodes
                  /\ rels = g.rels
                  /\ courseProps = g.courseProps
    /\ deptProps = << >>
    /\ BuildAtRest
    /\ req = NoCall
    /\ out = NoCall
    /\ StoreAtRest

\* max_depth values around the length the query allows.
LineDepthChoices == {1, 2, DefaultMaxDepth, DefaultMaxDepth + 1, MaxChain}

\* planner.get_prerequisite_chain(course_code, max_depth) on the line.
CallChainOnLine ==
    /\ req = NoCall
    /\ \E i \in 1..MaxChain :
          \E max_depth \in LineDepthChoices :
              /\ req' = [op |-> "chain", course_code |-> LineCourse(i),
                         max_depth |-> max_depth]
              /\ out' = GetPrerequisiteChain(LineCourse(i), max_depth)
    /\ UNCHANGED <<graphVars, buildVars, storeVars>>

NextChain ==
    \/ CallChainOnLine
    \/ Return

SpecChain == InitChain /\ [][NextChain]_vars


-----------------------------------------------------------------------------
(* The relational academic tables: text, rows and store calls *)

\* A text value is the sequence of its runs <<character, count>>: a name of
\* 600 characters is two runs.
RECURSIVE TextLen(_)
TextLen(text) ==
    IF text = <<>> THEN 0 ELSE Head(text)[2] + TextLen(Tail(text))

RECURSIVE Truncate(_, _)
\* text[:n]
Truncate(text, n) ==
    IF text = <<>> \/ n <= 0 THEN <<>>
    ELSE IF Head(text)[2] <= n
         THEN <<Head(text)>> \o Truncate(Tail(text), n - Head(text)[2])
         ELSE << <<Head(text)[1], n>> >>

\* program_info.name[:500] of the builder and of the standalone populator;
\* name[:150] and name[:100] of the populate_supabase_backup tool.
ProgramNameLimit == 500
ToolProgramNameLimit == 150
ToolDepartmentNameLimit == 100
\* batch_size of the builder, default batch_size of the populator and the tool.
BuilderBatchSize == 100
DefaultBatchSize == 100

\* Bounds of a population run's store failures and of the runs.
MaxCallIndex == 2
MaxFailures == 1
MaxRuns == 2

\* The calls a population run makes on the store.
StoreCalls ==
    {"delete", "select", "upsert_departments", "upsert_courses", "upsert_programs"}

RECURSIVE SubsetsUpTo(_, _)
\* The subsets of S with at most k elements.
SubsetsUpTo(S, k) ==
    IF k = 0 THEN {{}}
    ELSE LET smaller == SubsetsUpTo(S, k - 1)
         IN  smaller \cup {x[1] \cup {x[2]} : x \in smaller \X S}

\* The store calls that raise in a run: <<kind, n>> says the n-th call of
\* that kind does.
FailurePatterns == SubsetsUpTo(StoreCalls \X (1..MaxCallIndex), MaxFailures)

Tables == {"academic_departments", "academic_courses", "academic_programs"}

\* A run's position: the tables, the calls made so far, whether an exception
\* is propagating, and the statistics the run keeps.
StartRun(t) ==
    [tables |-> t,
     calls |-> [c \in StoreCalls |-> 0],
     raised |-> FALSE,
     processed |-> [x \in Tables |-> 0],
     inserted |-> [x \in Tables |-> 0],
     duplicates_skipped |-> 0,
     errors |-> <<>>]

\* One call on the store: it raises if the failure pattern says so, and takes
\* effect otherwise.  Nothing is called while an exception propagates.
StoreCall(st, kind, F, after) ==
    IF st.raised THEN st
    ELSE LET k == st.calls[kind] + 1
         IN  IF <<kind, k>> \in F
             THEN [st EXCEPT !.calls[kind] = k, !.raised = TRUE]
             ELSE [st EXCEPT !.calls[kind] = k, !.tables = after]

\* except Exception: print a warning.
Swallow(st) == [st EXCEPT !.raised = FALSE]

\* except Exception as e: stats['errors'].append(error_msg)
Caught(st, error_msg) ==
    IF st.raised
    THEN [st EXCEPT !.raised = FALSE, !.errors = Append(@, error_msg)]
    ELSE st

\* table(..).delete().neq(column, '').execute(): the rows that carry the
\* column go; neq('id', 0) takes every row.
Delete(st, table, column, F) ==
    LET rows == st.tables[table]
        kept == {r \in BagToSet(rows) : column # "id" /\ column \notin DOMAIN r}
    IN  StoreCall(st, "delete", F,
                  [st.tables EXCEPT ![table] = [r \in kept |-> rows[r]]])

RECURSIVE AddRows(_, _, _)
AddRows(bag, rows, i) ==
    IF i > Len(rows) THEN bag
    ELSE AddRows(bag (+) SetToBag({rows[i]}), rows, i + 1)

\* table(..).upsert(rows).execute(): the rows carry no id, each is inserted.
Upsert(st, kind, table, rows, F) ==
    StoreCall(st, kind, F,
              [st.tables EXCEPT ![table] = AddRows(@, rows, 1)])

\* table(..).select(column).execute(), and the set the tool builds from it.
Select(st, F) == StoreCall(st, "select", F, st.tables)
Column(st, table, column) ==
    {r[column] : r \in {x \in BagToSet(st.tables[table]) : column \in DOMAIN x}}

RECURSIVE UpsertBatches(_, _, _, _, _, _, _)
\* for i in range(0, len(records), batch_size): upsert the batch and count it
UpsertBatches(st, kind, table, records, i, batch_size, F) ==
    IF st.raised \/ i > Len(records) THEN st
    ELSE LET last == IF i + batch_size - 1 <= Len(records)
                     THEN i + batch_size - 1 ELSE Len(records)
             batch == SubSeq(records, i, last)
             next == Upsert(st, kind, table, batch, F)
         IN  UpsertBatches(IF next.raised THEN next
                           ELSE [next EXCEPT !.inserted[table] = @ + Len(batch)],
                           kind, table, records, last + 1, batch_size, F)

RECURSIVE FirstSeen(_, _, _, _)
\* The indexes of the records a loop keeps when it skips every key it has
\* seen: `if key in seen: continue; seen.add(key)`.
FirstSeen(keys, i, seen, acc) ==
    IF i > Len(keys) THEN acc
    ELSE IF keys[i] \in seen THEN FirstSeen(keys, i + 1, seen, acc)
    ELSE FirstSeen(keys, i + 1, seen \cup {keys[i]}, Append(acc, i))

\* Rows as the builder and the standalone populator prepare them.
DepartmentRows(departments) ==
    LET keep == FirstSeen([i \in 1..Len(departments) |-> departments[i].prefix],
                          1, {}, <<>>)
    IN  [k \in 1..Len(keep) |->
            [department_name |-> departments[keep[k]].name,
             prefix |-> departments[keep[k]].prefix]]

CourseRows(courses) ==
    LET keep == FirstSeen([i \in 1..Len(courses) |-> courses[i].code], 1, {}, <<>>)
    IN  [k \in 1..Len(keep) |->
            [course_code |-> courses[keep[k]].code,
             credits |-> courses[keep[k]].credits,
             level |-> courses[keep[k]].level,
             prefix |-> courses[keep[k]].prefix,
             course_number |-> courses[keep[k]].number]]

ProgramRows(programs) ==
    LET keep == FirstSeen([i \in 1..Len(programs) |->
                              Truncate(programs[i].name, ProgramNameLimit)],
                          1, {}, <<>>)
    IN  [k \in 1..Len(keep) |->
            [program_name |-> Truncate(programs[keep[k]].name, ProgramNameLimit)]]

-----------------------------------------------------------------------------
(* The three population paths of the relational tables *)

\* The store is written.
WritesAlways(dry_run) == TRUE

\* `and not dry_run`
Writes(dry_run) == ~dry_run

\* What a run leaves: the tables and what it returns; `calls` and `failed`
\* tell which store calls it made and whether one of them raised.
RunResult(st, result) ==
    [tables |-> st.tables,
     result |-> result @@ [calls |-> st.calls]]

\* AcademicGraphBuilder._populate_supabase_tables(academic_data)
PopulateSupabaseTables(academic_data, t, F) ==
    LET s1 == Delete(StartRun(t), "academic_courses", "course_code", F)
        s2 == Delete(s1, "academic_programs", "program_name", F)
        s3 == Delete(s2, "academic_departments", "department_name", F)
        dept_records == DepartmentRows(academic_data.departments)
        s4 == IF dept_records # <<>>
              THEN Upsert(s3, "upsert_departments", "academic_departments",
                          dept_records, F)
              ELSE s3
        s5 == UpsertBatches(s4, "upsert_courses", "academic_courses",
                            CourseRows(academic_data.courses), 1,
                            BuilderBatchSize, F)
        s6 == UpsertBatches(s5, "upsert_programs", "academic_programs",
                            ProgramRows(academic_data.programs), 1,
                            BuilderBatchSize, F)
    IN  RunResult(s6, [op |-> "populate_supabase_tables",
                       failed |-> s6.raised,
                       errors |-> <<>>])

\* SupabaseBackupPopulator._populate_departments / _courses / _programs
PopulateEntity(st, kind, table, total, rows, dry_run, batch_size, F, error_msg) ==
    IF total = 0 THEN st
    ELSE LET counted == [st EXCEPT !.processed[table] = @ + total,
                                   !.duplicates_skipped = @ + (total - Len(rows))]
         IN  IF rows # <<>> /\ Writes(dry_run)
             THEN Caught(UpsertBatches(counted, kind, table, rows, 1, batch_size, F),
                         error_msg)
             ELSE counted

\* The statistics a run reports.
Statistics(st) ==
    [departments_processed |-> st.processed["academic_departments"],
     courses_processed |-> st.processed["academic_courses"],
     programs_processed |-> st.processed["academic_programs"],
     departments_inserted |-> st.inserted["academic_departments"],
     courses_inserted |-> st.inserted["academic_courses"],
     programs_inserted |-> st.inserted["academic_programs"],
     duplicates_skipped |-> st.duplicates_skipped,
     errors |-> st.errors]

\* SupabaseBackupPopulator.populate_all_tables(clear_existing, dry_run)
PopulateAllTables(academic_data, t, clear_existing, dry_run, batch_size, F) ==
    LET s0 == StartRun(t)
        s1 == IF clear_existing /\ Writes(dry_run)
              THEN Swallow(Delete(Delete(Delete(s0, "academic_courses",
                                                "course_code", F),
                                         "academic_programs", "program_name", F),
                                  "academic_departments", "department_name", F))
              ELSE s0
        s2 == PopulateEntity(s1, "upsert_departments", "academic_departments",
                             Len(academic_data.departments),
                             DepartmentRows(academic_data.departments),
                             dry_run, batch_size, F, "Department insertion failed")
        s3 == PopulateEntity(s2, "upsert_courses", "academic_courses",
                             Len(academic_data.courses),
                             CourseRows(academic_data.courses),
                             dry_run, batch_size, F, "Course insertion failed")
        s4 == PopulateEntity(s3, "upsert_programs", "academic_programs",
                             Len(academic_data.programs),
                             ProgramRows(academic_data.programs),
                             dry_run, batch_size, F, "Program insertion failed")
    IN  RunResult(s4, [op |-> "populate_all_tables",
                       success |-> TRUE,
                       failed |-> s4.errors # <<>>,
                       statistics |-> Statistics(s4)])

RECURSIVE ToolLoop(_, _, _, _, _, _, _, _, _, _, _)
\* The loop of the tool over one entity type: count, skip the keys that are
\* in the store, flush a full batch, and after the loop the rest.
ToolLoop(st, kind, table, keys, rows, existing, i, pending, batch_size, dry_run, F) ==
    IF st.raised THEN st
    ELSE IF i > Len(keys)
    THEN IF pending # <<>> /\ Writes(dry_run)
         THEN LET next == Upsert(st, kind, table, pending, F)
              IN  IF next.raised THEN next
                  ELSE [next EXCEPT !.inserted[table] = @ + Len(pending)]
         ELSE IF dry_run
         THEN [st EXCEPT !.inserted[table] = Len(pending)]
         ELSE st
    ELSE LET counted == [st EXCEPT !.processed[table] = @ + 1]
             more == Append(pending, rows[i])
         IN  IF keys[i] \in existing
             THEN ToolLoop([counted EXCEPT !.duplicates_skipped = @ + 1],
                           kind, table, keys, rows, existing, i + 1, pending,
                           batch_size, dry_run, F)
             ELSE IF Len(more) < batch_size
             THEN ToolLoop(counted, kind, table, keys, rows, existing, i + 1,
                           more, batch_size, dry_run, F)
             ELSE IF ~Writes(dry_run)
             THEN ToolLoop(counted, kind, table, keys, rows, existing, i + 1,
                           <<>>, batch_size, dry_run, F)
             ELSE LET next == Upsert(counted, kind, table, more, F)
                  IN  ToolLoop(IF next.raised THEN next
                               ELSE [next EXCEPT !.inserted[table] = @ + Len(more)],
                               kind, table, keys, rows, existing, i + 1, <<>>,
                               batch_size, dry_run, F)

\* Rows as the tool prepares them; its keys are the keys of the dicts of
\* academic_data: department name, course code, program name.
ToolDepartmentRows(departments) ==
    [i \in 1..Len(departments) |->
        [prefix |-> departments[i].name,
         name |-> Truncate(departments[i].name, ToolDepartmentNameLimit)]]

ToolCourseRows(courses) ==
    [i \in 1..Len(courses) |->
        [course_code |-> courses[i].code,
         credits |-> courses[i].credits,
         department_prefix |-> courses[i].code[1]]]

ToolProgramRows(programs) ==
    [i \in 1..Len(programs) |->
        [program_code |-> programs[i].name,
         program_name |-> Truncate(programs[i].name, ToolProgramNameLimit),
         department_prefix |-> programs[i].department]]

\* The populate_supabase_backup tool.
ToolPopulate(academic_data, t, clear_existing, batch_size, dry_run, F) ==
    LET s0 == StartRun(t)
        s1 == IF clear_existing /\ Writes(dry_run)
              THEN Swallow(Delete(Delete(Delete(s0, "academic_programs", "id", F),
                                         "academic_courses", "id", F),
                                  "academic_departments", "id", F))
              ELSE s0
        a == IF clear_existing THEN s1 ELSE Select(s1, F)
        b == IF clear_existing THEN s1 ELSE Select(a, F)
        c == IF clear_existing THEN s1 ELSE Select(b, F)
        existing_departments ==
            IF clear_existing \/ a.raised THEN {}
            ELSE Column(a, "academic_departments", "prefix")
        existing_courses ==
            IF clear_existing \/ b.raised THEN {}
            ELSE Column(b, "academic_courses", "course_code")
        existing_programs ==
            IF clear_existing \/ c.raised THEN {}
            ELSE Column(c, "academic_programs", "program_code")
        s2 == Swallow(c)
        s3 == ToolLoop(s2, "upsert_departments", "academic_departments",
                       [i \in 1..Len(academic_data.departments) |->
                           academic_data.departments[i].name],
                       ToolDepartmentRows(academic_data.departments),
                       existing_departments, 1, <<>>, batch_size, dry_run, F)
        s4 == ToolLoop(s3, "upsert_courses", "academic_courses",
                       [i \in 1..Len(academic_data.courses) |->
                           academic_data.courses[i].code],
                       ToolCourseRows(academic_data.courses),
                       existing_courses, 1, <<>>, batch_size, dry_run, F)
        s5 == ToolLoop(s4, "upsert_programs", "academic_programs",
                       [i \in 1..Len(academic_data.programs) |->
                           academic_data.programs[i].name],
                       ToolProgramRows(academic_data.programs),
                       existing_programs, 1, <<>>, batch_size, dry_run, F)
    IN  IF s5.raised
        THEN RunResult(s5, [op |-> "populate_supabase_backup",
                            success |-> FALSE,
                            failed |-> TRUE,
                            error |-> "store call raised"])
        ELSE RunResult(s5, [op |-> "populate_supabase_backup",
                            success |-> TRUE,
                            failed |-> FALSE,
                            mode |-> IF dry_run THEN "dry_run" ELSE "live",
                            statistics |-> Statistics(s5)])

-----------------------------------------------------------------------------
(* Population runs on crawled content *)

\* Department names of 20 and of 120 characters, their course prefixes, and
\* program names of 19 characters and of 600 characters; the two long names
\* agree on their first 500 characters.
StoreDeptOrder == << << <<"D", 20>> >>, << <<"D", 20>>, <<"e", 100>> >> >>
StorePrefixes == { << <<"C", 1>>, <<"S", 1>> >>, << <<"M", 4>> >> }
StoreProgramOrder ==
    << << <<"B", 19>> >>,
       << <<"B", 500>>, <<"a", 100>> >>,
       << <<"B", 500>>, <<"b", 100>> >> >>

MakeStoreCourse(code, prerequisites) == CourseInfo(code, DefaultCredits, prerequisites)

\* The academic_data values the crawled pages can give.
StoreEntitySets ==
    {LET kc == DictKeys(CodeOrder, fc, 1)
         kd == DictKeys(StoreDeptOrder, fd, 1)
         kp == DictKeys(StoreProgramOrder, fp, 1)
     IN  [courses |-> [i \in 1..Len(kc) |-> MakeStoreCourse(kc[i], fc[kc[i]])],
          departments |-> [i \in 1..Len(kd) |-> DepartmentInfo(kd[i], fd[kd[i]])],
          programs |-> [i \in 1..Len(kp) |-> ProgramInfo(kp[i], fp[kp[i]])]] :
        <<fc, fd, fp>> \in
            Dicts(Codes, {<<>>})
            \X Dicts(Range(StoreDeptOrder), StorePrefixes)
            \X Dicts(Range(StoreProgramOrder), {StoreDeptOrder[1]})}

BatchSizes == {1, 2, DefaultBatchSize}

InitStore ==
    /\ nodes = EmptyBag
    /\ rels = EmptyBag
    /\ courseProps = << >>
    /\ deptProps = << >>
    /\ BuildAtRest
    /\ req = NoCall
    /\ out = NoCall
    /\ tables = EmptyTables
    /\ tablesBefore = EmptyTables
    /\ crawled \in StoreEntitySets
    /\ runs = 0

\* The build's step _populate_supabase_tables(academic_data).
RunPopulateSupabaseTables ==
    /\ req = NoCall
    /\ runs < MaxRuns
    /\ \E F \in FailurePatterns :
          LET r == PopulateSupabaseTables(crawled, tables, F)
          IN  /\ req' = [op |-> "populate_supabase_tables", failures |-> F]
              /\ out' = r.result
              /\ tables' = r.tables
    /\ tablesBefore' = tables
    /\ runs' = runs + 1
    /\ UNCHANGED <<graphVars, buildVars, crawled>>

\* SupabaseBackupPopulator(batch_size).populate_all_tables(clear_existing, dry_run)
RunPopulateAllTables ==
    /\ req = NoCall
    /\ runs < MaxRuns
    /\ \E F \in FailurePatterns :
          \E clear_existing \in BOOLEAN, dry_run \in BOOLEAN :
              \E batch_size \in BatchSizes :
                  LET r == PopulateAllTables(crawled, tables, clear_existing,
                                             dry_run, batch_size, F)
                  IN  /\ req' = [op |-> "populate_all_tables",
                                 clear_existing |-> clear_existing,
                                 dry_run |-> dry_run,
                                 batch_size |-> batch_size,
                                 failures |-> F]
                      /\ out' = r.result
                      /\ tables' = r.tables
    /\ tablesBefore' = tables
    /\ runs' = runs + 1
    /\ UNCHANGED <<graphVars, buildVars, crawled>>

\* The tool populate_supabase_backup(clear_existing, batch_size, dry_run).
RunToolPopulate ==
    /\ req = NoCall
    /\ runs < MaxRuns
    /\ \E F \in FailurePatterns :
          \E clear_existing \in BOOLEAN, dry_run \in BOOLEAN :
              \E batch_size \in BatchSizes :
                  LET r == ToolPopulate(crawled, tables, clear_existing,
                                        batch_size, dry_run, F)
                  IN  /\ req' = [op |-> "populate_supabase_backup",
                                 clear_existing |-> clear_existing,
                                 dry_run |-> dry_run,
                                 batch_size |-> batch_size,
                                 failures |-> F]
                      /\ out' = r.result
                      /\ tables' = r.tables
    /\ tablesBefore' = tables
    /\ runs' = runs + 1
    /\ UNCHANGED <<graphVars, buildVars, crawled>>

NextStore ==
    \/ RunPopulateSupabaseTables
    \/ RunPopulateAllTables
    \/ RunToolPopulate
    \/ Return

SpecStore == InitStore /\ [][NextStore]_vars

-----------------------------------------------------------------------------
(* build_academic_graph as one call: graph and relational tables *)

RECURSIVE UpsertNodes(_, _, _, _)
\* for ... in academic_data[...].items(): MERGE (n:label {key})
UpsertNodes(ns, label, keys, i) ==
    IF i > Len(keys) THEN ns
    ELSE UpsertNodes(MergeNode(ns, label, keys[i]), label, keys, i + 1)

RECURSIVE SetDepartments(_, _, _)
\* MERGE (d:Department {prefix: $prefix}) SET d.name = $name, in dict order.
SetDepartments(props, departments, i) ==
    IF i > Len(departments) THEN props
    ELSE SetDepartments(Put(props, departments[i].prefix,
                            [name |-> departments[i].name]),
                        departments, i + 1)

RECURSIVE SetCourses(_, _, _)
\* MERGE (c:Course {code: $code}) SET c.prefix = ..., in dict order.
SetCourses(props, courses, i) ==
    IF i > Len(courses) THEN props
    ELSE SetCourses(Put(props, courses[i].code,
                        [prefix |-> courses[i].prefix,
                         number |-> courses[i].number,
                         credits |-> courses[i].credits,
                         level |-> courses[i].level]),
                    courses, i + 1)

\* The MATCH .. MERGE statements of _create_relationships before the
\* university hierarchy, in program order, one entry per MERGE.
LinkStatements(E) ==
    LET course_links ==
            [k \in 1..(2 * Len(E.courses)) |->
                LET course_info == E.courses[(k + 1) \div 2]
                    c == Node("Course", course_info.code)
                    d == Node("Department", course_info.prefix)
                IN  IF k % 2 = 1 THEN Rel("OFFERS_COURSE", d, c)
                    ELSE Rel("BELONGS_TO_DISCIPLINE", c, d)]
        pairs == PrereqPairs(E.courses, 1)
        prereq_links ==
            [k \in 1..Len(pairs) |->
                Rel("PREREQUISITE_FOR", Node("Course", pairs[k].prereq),
                    Node("Course", pairs[k].course))]
        program_links ==
            [k \in 1..(2 * Len(E.programs)) |->
                LET program_info == E.programs[(k + 1) \div 2]
                    p == Node("Program", program_info.name)
                    d == Node("Department",
                              ExtractDepartmentPrefix(program_info.department))
                IN  IF k % 2 = 1 THEN Rel("OFFERS_PROGRAM", d, p)
                    ELSE Rel("BELONGS_TO_DEPARTMENT", p, d)]
    IN  course_links \o prereq_links \o program_links

RECURSIVE RunLinks(_, _, _, _)
\* Each statement merges its relationship if both MATCHes find their node.
RunLinks(rs, ns, links, i) ==
    IF i > Len(links) THEN rs
    ELSE RunLinks(IF /\ Match(ns, links[i].from.label, links[i].from.key)
                     /\ Match(ns, links[i].to.label, links[i].to.key)
                  THEN MergeRel(rs, links[i].type, links[i].from, links[i].to)
                  ELSE rs,
                  ns, links, i + 1)

\* _populate_neo4j(academic_data): the nodes and their properties.
PopulateNeo4j(g, E) ==
    LET n1 == MergeNode(g.nodes, "University", UniversityName)
        n2 == UpsertNodes(n1, "Department",
                          [i \in 1..Len(E.departments) |-> E.departments[i].prefix], 1)
        n3 == UpsertNodes(n2, "Course",
                          [i \in 1..Len(E.courses) |-> E.courses[i].code], 1)
        n4 == UpsertNodes(n3, "Program",
                          [i \in 1..Len(E.programs) |-> E.programs[i].name], 1)
    IN  [g EXCEPT !.nodes = n4,
                  !.deptProps = SetDepartments(@, E.departments, 1),
                  !.courseProps = SetCourses(@, E.courses, 1)]

\* _create_relationships(academic_data)
CreateRelationships(g, E) ==
    LET linked == RunLinks(g.rels, g.nodes, LinkStatements(E), 1)
        rows == {<<u, d>> \in BagToSet(g.nodes) \X BagToSet(g.nodes) :
                    u.label = "University" /\ d.label = "Department"}
    IN  [g EXCEPT !.rels = MergeRels(linked, "HAS_DEPARTMENT", rows)]

\* build_academic_graph with every graph statement succeeding: _populate_neo4j,
\* _populate_supabase_tables (its store errors are caught), _create_relationships.
BuildAcademicGraph(g, t, academic_data, F) ==
    LET populated == PopulateNeo4j(g, academic_data)
        stored == PopulateSupabaseTables(academic_data, t, F)
    IN  [graph |-> CreateRelationships(populated, academic_data),
         tables |-> stored.tables,
         result |-> [op |-> "build_academic_graph",
                     departments |-> Len(academic_data.departments),
                     tables_failed |-> stored.result.failed]]

\* Department names and the main prefix their pages can give them, the
\* courses of the catalog and a program.
FullDeptOrder == <<"Computer Science", "Mathematics">>
FullProgramOrder == << << <<"B", 19>> >> >>

FullEntitySets ==
    {LET kc == DictKeys(CodeOrder, fc, 1)
         kd == DictKeys(FullDeptOrder, fd, 1)
         kp == DictKeys(FullProgramOrder, fp, 1)
     IN  [courses |-> [i \in 1..Len(kc) |-> MakeCourse(kc[i], fc[kc[i]])],
          departments |-> [i \in 1..Len(kd) |-> DepartmentInfo(kd[i], fd[kd[i]])],
          programs |-> [i \in 1..Len(kp) |-> ProgramInfo(kp[i], fp[kp[i]])]] :
        <<fc, fd, fp>> \in
            Dicts(Codes, ListsNoDup(Codes, MaxPrereqs))
            \X Dicts(Range(FullDeptOrder), Prefixes)
            \X Dicts(Range(FullProgramOrder), Range(FullDeptOrder))}

InitFullBuild ==
    /\ nodes = EmptyBag
    /\ rels = EmptyBag
    /\ courseProps = << >>
    /\ deptProps = << >>
    /\ BuildAtRest
    /\ req = NoCall
    /\ out = NoCall
    /\ tables = EmptyTables
    /\ tablesBefore = EmptyTables
    /\ crawled \in FullEntitySets
    /\ runs = 0

\* await builder.build_academic_graph() on the crawled pages.
RunBuildAcademicGraph ==
    /\ req = NoCall
    /\ runs < MaxRuns
    /\ \E F \in FailurePatterns :
          LET r == BuildAcademicGraph([nodes |-> nodes, rels |-> rels,
                                       courseProps |-> courseProps,
                                       deptProps |-> deptProps],
                                      tables, crawled, F)
          IN  /\ req' = [op |-> "build_academic_graph", failures |-> F]
              /\ out' = r.result
              /\ nodes' = r.graph.nodes
              /\ rels' = r.graph.rels
              /\ courseProps' = r.graph.courseProps
              /\ deptProps' = r.graph.deptProps
              /\ tables' = r.tables
    /\ tablesBefore' = tables
    /\ runs' = runs + 1
    /\ UNCHANGED <<buildVars, crawled>>

NextFullBuild ==
    \/ RunBuildAcademicGraph
    \/ Return

SpecFullBuild == InitFullBuild /\ [][NextFullBuild]_vars

-----------------------------------------------------------------------------
(* Text of crawled pages: sequences of one-character strings *)

UpperSeq == <<"A","B","C","D","E","F","G","H","I","J","K","L","M","N","O","P","Q","R","S","T","U","V","W","X","Y","Z">>
LowerSeq == <<"a","b","c","d","e","f","g","h","i","j","k","l","m","n","o","p","q","r","s","t","u","v","w","x","y","z">>
DigitSeq == <<"0","1","2","3","4","5","6","7","8","9">>
Upper == Range(UpperSeq)
Letters == Upper \cup Range(LowerSeq)
Digits == Range(DigitSeq)
\* \s and \w of the patterns.
Whitespace == {" ", "\n"}
WordChars == Letters \cup Digits \cup {"_"}
\* Every character of the pages.
Alphabet == WordChars \cup Whitespace \cup {".", ":", "(", ")", "*", ",", ";"}

\* The element of a one-element set.  {F(x) : x \in {e}} hands F the value
\* of e, computed once.
The(S) == CHOOSE x \in S : TRUE

\* The smallest position of a set: where the leftmost match starts.
First(positions) == CHOOSE p \in positions : \A q \in positions : p <= q

\* The character at position p, "" beyond either end of the text.
At(t, p) == IF p \in 1..Len(t) THEN t[p] ELSE ""

\* t[a:b] of the source for the 1-based positions a..b: a slice stops at the
\* end of the text.
Slice(t, a, b) ==
    LET last == IF b > Len(t) THEN Len(t) ELSE b
    IN  IF a > last THEN <<>> ELSE SubSeq(t, a, last)

\* str.upper()
ToUpper(c) ==
    IF c \in Range(LowerSeq)
    THEN UpperSeq[CHOOSE i \in 1..Len(LowerSeq) : LowerSeq[i] = c]
    ELSE c

UpperText(t) == [i \in 1..Len(t) |-> ToUpper(t[i])]

\* int(number) of a string of digits.
RECURSIVE ToInt(_)
ToInt(t) ==
    IF t = <<>> THEN 0
    ELSE 10 * ToInt(SubSeq(t, 1, Len(t) - 1))
         + (CHOOSE i \in 1..Len(DigitSeq) : DigitSeq[i] = t[Len(t)]) - 1

\* A literal of a pattern at position p; re.IGNORECASE when ignore_case.
Literal(t, p, w, ignore_case) ==
    \A i \in 1..Len(w) :
        IF ignore_case THEN ToUpper(At(t, p + i - 1)) = ToUpper(w[i])
        ELSE At(t, p + i - 1) = w[i]

\* str.strip()
Strip(t) ==
    LET solid == {i \in 1..Len(t) : t[i] \notin Whitespace}
    IN  IF solid = {} THEN <<>>
        ELSE SubSeq(t, CHOOSE i \in solid : \A j \in solid : i <= j,
                       CHOOSE i \in solid : \A j \in solid : i >= j)

\* $ of a pattern without re.MULTILINE: the end of the text, or the place
\* before a newline that ends it.
AtEnd(t, p) == p = Len(t) + 1 \/ (p = Len(t) /\ t[p] = "\n")

-----------------------------------------------------------------------------
(* Regular expressions of the extraction: a pattern is a sequence of items *)

\* chars{min,max}, greedy; max = 0 stands for no upper limit.
Chars(chars, min, max) ==
    [kind |-> "chars", chars |-> chars, min |-> min, max |-> max, lazy |-> FALSE]
\* chars*?
LazyChars(chars) ==
    [kind |-> "chars", chars |-> chars, min |-> 0, max |-> 0, lazy |-> TRUE]
\* A literal text.
Text(text, ignore_case) ==
    [kind |-> "text", text |-> text, ignore_case |-> ignore_case, lazy |-> FALSE]
\* \b, $ and (?:\.|$)
WordBoundary == [kind |-> "boundary", lazy |-> FALSE]
EndOfText == [kind |-> "end", lazy |-> FALSE]
StopOrEnd == [kind |-> "stop_or_end", lazy |-> FALSE]
OneOrMore(chars) == Chars(chars, 1, 0)

\* The numbers of characters an item can take at position p.
Counts(t, p, item) ==
    CASE item.kind = "chars" ->
           {n \in item.min..(IF item.max = 0 THEN Len(t) - p + 1 ELSE item.max) :
               \A x \in p..(p + n - 1) : At(t, x) \in item.chars}
      [] item.kind = "text" ->
           IF Literal(t, p, item.text, item.ignore_case) THEN {Len(item.text)} ELSE {}
      [] item.kind = "boundary" ->
           IF (At(t, p - 1) \in WordChars) # (At(t, p) \in WordChars) THEN {0} ELSE {}
      [] item.kind = "end" -> IF AtEnd(t, p) THEN {0} ELSE {}
      [] OTHER -> IF At(t, p) = "." THEN {1} ELSE IF AtEnd(t, p) THEN {0} ELSE {}

\* The match of items[i..] at position p that the backtracking search finds
\* first: a set with the positions after each of the items, or no element.
\* A greedy item takes the most characters that let the rest match, a lazy
\* item the fewest.
RECURSIVE MatchAt(_, _, _, _)
MatchAt(t, p, items, i) ==
    IF i > Len(items) THEN {<<>>}
    ELSE UNION
        {{m \in found : \A o \in found :
                 IF items[i].lazy THEN m[1] <= o[1] ELSE m[1] >= o[1]} :
            found \in {UNION {{<<p + n>> \o rest : rest \in MatchAt(t, p + n, items, i + 1)} :
                              n \in Counts(t, p, items[i])}}}

\* re.finditer from position p on: the matches from left to right, none
\* overlapping.  A match is its start followed by the positions after
\* each item.
RECURSIVE FindAll(_, _, _)
FindAll(t, p, items) ==
    The({IF hits = {} THEN <<>>
         ELSE The({<<m>> \o FindAll(t, m[Len(m)], items) :
                      m \in {<<First(hits)>> \o rest :
                                rest \in MatchAt(t, First(hits), items, 1)}}) :
            hits \in {{q \in p..Len(t) : MatchAt(t, q, items, 1) # {}}}})

\* The text items a..b of match m took.
Group(t, m, a, b) == Slice(t, m[a], m[b + 1] - 1)

\* The text with its matches ms[i..] replaced, from the end of match i-1 on.
RECURSIVE Replaced(_, _, _, _)
Replaced(t, ms, i, replacement) ==
    LET from == IF i = 1 THEN 1 ELSE ms[i - 1][Len(ms[i - 1])]
    IN  IF i > Len(ms) THEN Slice(t, from, Len(t))
        ELSE Slice(t, from, ms[i][1] - 1) \o replacement
             \o Replaced(t, ms, i + 1, replacement)

\* re.sub(pattern, replacement, text)
Sub(items, replacement, text) ==
    The({The({Replaced(t, ms, 1, replacement) : ms \in {FindAll(t, 1, items)}}) :
            t \in {text}})

\* re.sub(r'\s+', ' ', text)
CollapseSpace(text) == Sub(<<OneOrMore(Whitespace)>>, <<" ">>, text)

\* re.sub(r'\*\*', '', text)
RemoveBold(text) == Sub(<<Text(<<"*","*">>, FALSE)>>, <<>>, text)

-----------------------------------------------------------------------------
(* _extract_prerequisites *)

\* \b([A-Z]{2,4})\s+(\d{4}[A-Z]?)\b under re.IGNORECASE
CodePattern ==
    << WordBoundary, Chars(Letters, 2, 4), OneOrMore(Whitespace),
       Chars(Digits, 4, 4), Chars(Letters, 0, 1), WordBoundary >>

\* f"{prefix.upper()} {number.upper()}"
FormatCode(prefix, number) == UpperText(prefix) \o <<" ">> \o UpperText(number)

\* re.findall of the code pattern, each match formatted.
CodesIn(text) ==
    The({[i \in 1..Len(ms) |-> FormatCode(Group(t, ms[i], 2, 2), Group(t, ms[i], 4, 5))] :
            <<t, ms>> \in {<<t, FindAll(t, 1, CodePattern)>> : t \in {text}}})

\* prereq_patterns with the item of their group: Prerequisites?:([^.]*?)(?:\.|$)
\* and the like for Prereq: and Required:, under re.IGNORECASE | re.DOTALL.
PrereqPatterns ==
    << [items |-> << Text(<<"P","r","e","r","e","q","u","i","s","i","t","e">>, TRUE), Chars({"s", "S"}, 0, 1),
                     Text(<<":">>, TRUE), LazyChars(Alphabet \ {"."}), StopOrEnd >>,
        group |-> 4],
       [items |-> << Text(<<"P","r","e","r","e","q",":">>, TRUE), LazyChars(Alphabet \ {"."}), StopOrEnd >>,
        group |-> 2],
       [items |-> << Text(<<"R","e","q","u","i","r","e","d",":">>, TRUE), LazyChars(Alphabet \ {"."}), StopOrEnd >>,
        group |-> 2] >>

\* The whole description is the section.
WholeText(t, m, group) == t

\* The group of a section match.
SectionText(t, m, group) == Group(t, m, group, group)

\* re.findall of one section pattern.
FindSections(text, pattern) ==
    The({[i \in 1..Len(ms) |-> SectionText(t, ms[i], pattern.group)] :
            <<t, ms>> \in {<<t, FindAll(t, 1, pattern.items)>> : t \in {text}}})

\* list.append of every item the list does not hold yet.
RECURSIVE AppendNew(_, _, _)
AppendNew(list, items, i) ==
    IF i > Len(items) THEN list
    ELSE The({AppendNew(next, items, i + 1) :
                 next \in {IF items[i] \in Range(list) THEN list
                           ELSE Append(list, items[i])}})

\* The codes of the sections, section after section.
RECURSIVE SectionCodes(_, _, _)
SectionCodes(sections, i, prerequisites) ==
    IF i > Len(sections) THEN prerequisites
    ELSE The({SectionCodes(sections, i + 1, AppendNew(prerequisites, codes, 1)) :
                 codes \in {CodesIn(sections[i])}})

\* prereq_context_patterns with the items of their group, under
\* re.IGNORECASE:
\*   ([A-Z]{2,4}\s+\d{4}[A-Z]?)\s+\(Grade [A-Z] or higher\)
\*   ([A-Z]{2,4}\s+\d{4}[A-Z]?)\s+or higher
\*   completion of\s+([A-Z]{2,4}\s+\d{4}[A-Z]?)
PrereqContextPatterns ==
    << [items |-> << Chars(Letters, 2, 4), OneOrMore(Whitespace), Chars(Digits, 4, 4),
                     Chars(Letters, 0, 1), OneOrMore(Whitespace),
                     Text(<<"(","G","r","a","d","e"," ">>, TRUE), Chars(Letters, 1, 1),
                     Text(<<" ","o","r"," ","h","i","g","h","e","r",")">>, TRUE) >>,
        from |-> 1, to |-> 4],
       [items |-> << Chars(Letters, 2, 4), OneOrMore(Whitespace), Chars(Digits, 4, 4),
                     Chars(Letters, 0, 1), OneOrMore(Whitespace),
                     Text(<<"o","r"," ","h","i","g","h","e","r">>, TRUE) >>,
        from |-> 1, to |-> 4],
       [items |-> << Text(<<"c","o","m","p","l","e","t","i","o","n"," ","o","f">>, TRUE), OneOrMore(Whitespace),
                     Chars(Letters, 2, 4), OneOrMore(Whitespace), Chars(Digits, 4, 4),
                     Chars(Letters, 0, 1) >>,
        from |-> 3, to |-> 6] >>

\* re.sub(r'\s+', ' ', match.strip().upper())
CleanCode(text) == CollapseSpace(Strip(UpperText(text)))

\* re.findall of one context pattern, each match cleaned.
FindContext(text, pattern) ==
    The({[i \in 1..Len(ms) |-> CleanCode(Group(t, ms[i], pattern.from, pattern.to))] :
            <<t, ms>> \in {<<t, FindAll(t, 1, pattern.items)>> : t \in {text}}})

\* re.match(r'^[A-Z]{2,4}\s+\d{4}[A-Z]?$', cleaned)
IsCodeFormat(cleaned) ==
    MatchAt(cleaned, 1, << Chars(Upper, 2, 4), OneOrMore(Whitespace), Chars(Digits, 4, 4),
                         Chars(Upper, 0, 1), EndOfText >>, 1) # {}

\* cleaned_prereqs: the well-formed codes, each once.
RECURSIVE CleanedPrereqs(_, _, _)
CleanedPrereqs(prerequisites, i, cleaned_prereqs) ==
    IF i > Len(prerequisites) THEN cleaned_prereqs
    ELSE The({CleanedPrereqs(prerequisites, i + 1,
                             IF IsCodeFormat(cleaned) /\ cleaned \notin Range(cleaned_prereqs)
                             THEN Append(cleaned_prereqs, cleaned)
                             ELSE cleaned_prereqs) :
                 cleaned \in {CleanCode(prerequisites[i])}})

\* The prerequisites before the clean-up: the codes of the sections, and
\* those of the context patterns when the sections gave none and the
\* description has a code.
FoundPrerequisites(description, all_courses, from_sections) ==
    IF from_sections = <<>> /\ all_courses # <<>>
    THEN AppendNew(
           AppendNew(
             AppendNew(<<>>, FindContext(description, PrereqContextPatterns[1]), 1),
             FindContext(description, PrereqContextPatterns[2]), 1),
           FindContext(description, PrereqContextPatterns[3]), 1)
    ELSE from_sections

ExtractPrerequisites(text) ==
    The({CleanedPrereqs(prerequisites, 1, <<>>) :
        prerequisites \in
            {FoundPrerequisites(description, all_courses, SectionCodes(prereq_sections, 1, <<>>)) :
                <<description, all_courses, prereq_sections>> \in
                    {<<description, CodesIn(description),
                       FindSections(description, PrereqPatterns[1])
                       \o FindSections(description, PrereqPatterns[2])
                       \o FindSections(description, PrereqPatterns[3])>> :
                        description \in {text}}}})

-----------------------------------------------------------------------------
(* _extract_courses_from_content *)

InvalidPrefixes ==
    { <<"F","A","L","L">>, <<"S","P","R","I","N","G">>, <<"S","U","M","M","E","R">>, <<"W","I","N","T","E","R">>,
      <<"I","N">>, <<"O","N">>, <<"A","T">>, <<"T","O">>, <<"F","O","R">>, <<"T","H","E">>,
      <<"N","T","I","L">>, <<"C","H","I","N">>, <<"Y","E","A","R">>, <<"P","A","G","E">>,
      <<"A","N","D">>, <<"O","R">>, <<"B","U","T">>, <<"N","O","T">>, <<"W","I","T","H">> }

FacilityKeywords ==
    { <<"s","t","a","d","i","u","m">>, <<"c","e","n","t","e","r">>, <<"b","u","i","l","d","i","n","g">>, <<"f","a","c","i","l","i","t","y">>, <<"h","a","l","l">>, <<"l","i","b","r","a","r","y">> }

\* keyword in title_lower
Contains(t, w) == \E p \in 1..Len(t) : Literal(t, p, w, TRUE)

\* Every match is kept.
AnyCourseCode(prefix, number, title) == TRUE

\* _is_valid_course_code
IsValidCourseCode(prefix, number, title) ==
    /\ prefix \notin InvalidPrefixes
    /\ ~(Len(number) = 4 /\ (Literal(number, 1, <<"1","9">>, FALSE)
                             \/ Literal(number, 1, <<"2","0">>, FALSE)))
    /\ ~(Len(Strip(title)) < 5
         \/ (Strip(title) # <<>> /\ \A i \in 1..Len(Strip(title)) : Strip(title)[i] \in Digits))
    /\ ~\E keyword \in FacilityKeywords : Contains(title, keyword)

\* course_pattern without its optional group:
\* \b([A-Z]{2,4})\s+(\d{4})\.\s+([^.\n]+)\.\s*
CoursePattern ==
    << WordBoundary, Chars(Upper, 2, 4), OneOrMore(Whitespace), Chars(Digits, 4, 4),
       Text(<<".">>, FALSE), OneOrMore(Whitespace),
       OneOrMore(Alphabet \ {".", "\n"}), Text(<<".">>, FALSE),
       Chars(Whitespace, 0, 0) >>

\* The optional group of course_pattern, one alternative after the other:
\* (?:(\d+)\s*(?:Hours?|Credits?))?
CreditPatterns ==
    << << OneOrMore(Digits), Chars(Whitespace, 0, 0), Text(<<"H","o","u","r">>, FALSE),
          Chars({"s"}, 0, 1) >>,
       << OneOrMore(Digits), Chars(Whitespace, 0, 0), Text(<<"C","r","e","d","i","t">>, FALSE),
          Chars({"s"}, 0, 1) >> >>

\* One match of course_pattern: the groups, and the position after it.
CourseMatch(t, m) ==
    The({[prefix |-> Group(t, m, 2, 2),
          number |-> Group(t, m, 4, 4),
          title |-> Group(t, m, 7, 7),
          credits_str |-> IF credit = {} THEN <<>>
                          ELSE Slice(t, m[Len(m)], The(credit)[1] - 1),
          end |-> IF credit = {} THEN m[Len(m)] ELSE The(credit)[4]] :
            credit \in {The({IF hours # {} THEN hours
                              ELSE MatchAt(t, m[Len(m)], CreditPatterns[2], 1) :
                                 hours \in {MatchAt(t, m[Len(m)], CreditPatterns[1], 1)}})}})

\* The first match of course_pattern from position p on, if any.
NextCourse(t, p) ==
    The({IF hits = {} THEN {}
         ELSE {CourseMatch(t, <<First(hits)>> \o rest) :
                  rest \in MatchAt(t, First(hits), CoursePattern, 1)} :
            hits \in {{q \in p..Len(t) : MatchAt(t, q, CoursePattern, 1) # {}}}})

\* content[start_pos:start_pos + 2000]
SnippetLength == 2000

\* end_patterns: the next course, the next section header, three newlines.
EndPatterns ==
    << << Text(<<"\n">>, FALSE), Chars(Upper, 2, 4), OneOrMore(Whitespace),
          Chars(Digits, 4, 4), Text(<<".">>, FALSE) >>,
       << Text(<<"\n">>, FALSE), Chars(Upper, 1, 1), OneOrMore(Upper \cup Whitespace),
          Text(<<":">>, FALSE) >>,
       << Text(<<"\n","\n","\n">>, FALSE) >> >>

\* The description of a snippet: it stops where the first end pattern is
\* found, is stripped, its white space collapsed and its ** removed.
DescriptionOf(snippet) ==
    The({RemoveBold(CollapseSpace(Strip(Slice(snippet, 1, end_pos - 1)))) :
            end_pos \in {The({IF ends = {} THEN Len(snippet) + 1 ELSE First(ends) :
                              ends \in {{q \in 1..Len(snippet) :
                                           \E k \in 1..Len(EndPatterns) :
                                               MatchAt(snippet, q, EndPatterns[k], 1) # {}}}})}})

\* _extract_course_description
ExtractCourseDescription(content, start_pos) ==
    The({DescriptionOf(snippet) :
            snippet \in {Slice(content, start_pos, start_pos + SnippetLength - 1)}})

\* CourseInfo of one match of course_pattern.
CourseOfMatch(content, m) ==
    The({[code |-> m.prefix \o <<" ">> \o m.number,
          prefix |-> m.prefix,
          number |-> m.number,
          title |-> Strip(m.title),
          credits |-> IF m.credits_str # <<>> THEN ToInt(m.credits_str)
                      ELSE DefaultCredits,
          level |-> CourseLevel(ToInt(m.number)),
          description |-> description,
          prerequisites |-> ExtractPrerequisites(description)] :
            description \in {ExtractCourseDescription(content, m.end)}})

\* courses[code] = CourseInfo(...)
Assign(courses, info) ==
    [code \in DOMAIN courses \cup {info.code} |->
        IF code = info.code THEN info ELSE courses[code]]

\* The loop over re.finditer(course_pattern, content) from position p on.
RECURSIVE ExtractCourses(_, _, _)
ExtractCourses(content, p, courses) ==
    The({IF next = {} THEN courses
         ELSE The({ExtractCourses(content, m.end, assigned) :
                      <<m, assigned>> \in
                          {<<m, IF IsValidCourseCode(m.prefix, m.number, Strip(m.title))
                                THEN Assign(courses, CourseOfMatch(content, m))
                                ELSE courses>> : m \in next}}) :
            next \in {NextCourse(content, p)}})

\* _extract_courses_from_content
ExtractCoursesFromContent(content) == ExtractCourses(content, 1, <<>>)

-----------------------------------------------------------------------------
(* _extract_academic_data: courses, programs and departments of the pages *)

\* str.lower() and str.title() of a text.
ToLower(c) ==
    IF c \in Upper
    THEN LowerSeq[CHOOSE i \in 1..Len(UpperSeq) : UpperSeq[i] = c]
    ELSE c

Title(t) ==
    [i \in 1..Len(t) |->
        IF At(t, i - 1) \in Letters THEN ToLower(t[i]) ELSE ToUpper(t[i])]

\* str.replace('-', ' ')
Unhyphen(t) == [i \in 1..Len(t) |-> IF t[i] = "-" THEN " " ELSE t[i]]

\* Every character of a URL, and [^/] and [^,\n].
UrlAlphabet == Alphabet \cup {"/", "-"}
NoSlash == UrlAlphabet \ {"/"}
NoCommaOrNewline == UrlAlphabet \ {",", "\n"}

\* r'/([^/]+)/?$'
SlugPattern ==
    << Text(<<"/">>, FALSE), OneOrMore(NoSlash), Chars({"/"}, 0, 1), EndOfText >>

\* re.search(r'/([^/]+)/?$', url).group(1), in a set; no element if the
\* pattern is not found.
Slug(url) ==
    The({IF ms = <<>> THEN {} ELSE {Group(url, ms[1], 2, 2)} :
            ms \in {FindAll(url, 1, SlugPattern)}})

UnknownDepartment == <<"U","n","k","n","o","w","n"," ","D","e","p","a","r","t","m","e","n","t">>

\* _extract_department_from_url
ExtractDepartmentFromUrl(url) ==
    The({IF slug = {} THEN UnknownDepartment ELSE Title(Unhyphen(The(slug))) :
            slug \in {Slug(url)}})

\* `w in text`
ContainsExact(t, w) == \E p \in 1..Len(t) : Literal(t, p, w, FALSE)

\* program_patterns, each with re.IGNORECASE.
ProgramPatterns ==
    << << Text(<<"B","a","c","h","e","l","o","r"," ","o","f"," ">>, TRUE), OneOrMore(NoCommaOrNewline) >>,
       << Text(<<"M","a","s","t","e","r"," ","o","f"," ">>, TRUE), OneOrMore(NoCommaOrNewline) >>,
       << Chars(Letters, 1, 1), OneOrMore(NoCommaOrNewline), Text(<<" ","C","e","r","t","i","f","i","c","a","t","e">>, TRUE) >>,
       << Chars(Letters, 1, 1), OneOrMore(NoCommaOrNewline), Text(<<" ","M","i","n","o","r">>, TRUE) >> >>

\* The program type and level of a name; no element for `else: continue`.
ProgramType(program_name) ==
    IF ContainsExact(program_name, <<"B","a","c","h","e","l","o","r">>)
    THEN {[type |-> "Bachelor", level |-> "undergraduate"]}
    ELSE IF ContainsExact(program_name, <<"M","a","s","t","e","r">>)
    THEN {[type |-> "Master", level |-> "graduate"]}
    ELSE IF ContainsExact(program_name, <<"C","e","r","t","i","f","i","c","a","t","e">>)
    THEN {[type |-> "Certificate", level |-> "undergraduate"]}
    ELSE IF ContainsExact(program_name, <<"M","i","n","o","r">>)
    THEN {[type |-> "Minor", level |-> "undergraduate"]}
    ELSE {}

\* d[key] = value
SetItem(d, key, value) ==
    [k \in DOMAIN d \cup {key} |-> IF k = key THEN value ELSE d[k]]

RECURSIVE ProgramsOfMatches(_, _, _, _, _)
\* for match in matches: programs[program_name] = ProgramInfo(...)
ProgramsOfMatches(content, ms, i, department, programs) ==
    IF i > Len(ms) THEN programs
    ELSE The({ProgramsOfMatches(content, ms, i + 1, department,
                  IF ProgramType(program_name) = {} THEN programs
                  ELSE SetItem(programs, program_name,
                               [name |-> program_name,
                                type |-> The(ProgramType(program_name)).type,
                                level |-> The(ProgramType(program_name)).level,
                                department |-> department]))
                 : program_name \in {Strip(Slice(content, ms[i][1],
                                                 ms[i][Len(ms[i])] - 1))}})

RECURSIVE ProgramsOfPatterns(_, _, _, _)
\* for pattern in program_patterns: ...
ProgramsOfPatterns(content, k, department, programs) ==
    IF k > Len(ProgramPatterns) THEN programs
    ELSE The({ProgramsOfPatterns(content, k + 1, department, found) :
                 found \in {ProgramsOfMatches(content,
                                              FindAll(content, 1, ProgramPatterns[k]),
                                              1, department, programs)}})

\* _extract_programs_from_content
ExtractProgramsFromContent(content, url) ==
    The({ProgramsOfPatterns(content, 1, department, <<>>) :
            department \in {ExtractDepartmentFromUrl(url)}})

\* r'([A-Z]{2,4})\s+\d{4}'
PrefixPattern == << Chars(Upper, 2, 4), OneOrMore(Whitespace), Chars(Digits, 4, 4) >>

\* content.count(p)
CountOf(content, p) == Len(FindAll(content, 1, <<Text(p, FALSE)>>))

Unknown == <<"U","N","K","N">>

\* The orders in which a set of the prefixes of the pages can yield its
\* elements: a set of strings has no fixed order, it has one per process.
SetOrders == { << <<"C","S">>, <<"M","A","T","H">> >>, << <<"M","A","T","H">>, <<"C","S">> >> }

\* max(prefixes, key=lambda p: content.count(p)) if prefixes else "UNKN":
\* of the prefixes with the highest count max returns the one the set yields
\* first.
MainPrefix(content, set_order) ==
    The({IF prefixes = {} THEN Unknown
         ELSE set_order[First({i \in 1..Len(set_order) :
                                  /\ set_order[i] \in prefixes
                                  /\ \A o \in prefixes :
                                        CountOf(content, set_order[i])
                                            >= CountOf(content, o)})] :
            prefixes \in {The({{Group(content, ms[i], 1, 1) : i \in 1..Len(ms)} :
                                 ms \in {FindAll(content, 1, PrefixPattern)}})}})

\* _extract_departments_from_content
ExtractDepartmentsFromContent(content, url, set_order) ==
    The({IF slug = {} THEN <<>>
         ELSE SetItem(<<>>, Title(Unhyphen(The(slug))),
                      [name |-> Title(Unhyphen(The(slug))),
                       code |-> UpperText(The(slug)),
                       prefix |-> MainPrefix(content, set_order)]) :
            slug \in {Slug(url)}})

\* The first record of a key stays.
KeepFirst(d, other) ==
    [k \in DOMAIN d \cup DOMAIN other |-> IF k \in DOMAIN d THEN d[k] ELSE other[k]]

\* dict.update(other)
Update(d, other) ==
    [k \in DOMAIN d \cup DOMAIN other |-> IF k \in DOMAIN other THEN other[k] ELSE d[k]]

RECURSIVE ExtractPages(_, _, _, _)
\* for page in response.data: ... courses.update(page_courses) ...
ExtractPages(pages, i, set_order, data) ==
    IF i > Len(pages) THEN data
    ELSE The({ExtractPages(pages, i + 1, set_order,
                  [courses |-> Update(data.courses, found[1]),
                   programs |-> Update(data.programs, found[2]),
                   departments |-> Update(data.departments, found[3])]) :
                 found \in {<<ExtractCoursesFromContent(pages[i].content),
                              ExtractProgramsFromContent(pages[i].content, pages[i].url),
                              ExtractDepartmentsFromContent(pages[i].content,
                                                            pages[i].url, set_order)>>}})

\* _extract_academic_data on the crawled pages of the catalog: {} when there
\* is no page.
ExtractAcademicData(pages, set_order) ==
    IF pages = <<>> THEN <<>>
    ELSE ExtractPages(pages, 1, set_order,
                      [courses |-> <<>>, programs |-> <<>>, departments |-> <<>>])

\* Contents and URLs of crawled pages.
PageContents ==
    { <<"C","S"," ","1","4","0","0","."," ","I","n","t","r","o"," ","P","r","o","g","r","a","m","m","i","n","g","."," ","3"," ","C","r","e","d","i","t","s","\n","B","a","c","h","e","l","o","r"," ","o","f"," ","S","c","i","e","n","c","e","\n">>,
      <<"C","S"," ","1","4","0","0","."," ","P","r","o","g","r","a","m","m","i","n","g"," ","O","n","e","."," ","4"," ","H","o","u","r","s","\n","C","S"," ","1","4","0","0","."," ","P","r","o","g","r","a","m","m","i","n","g"," ","T","w","o",".","\n","P","r","e","r","e","q","u","i","s","i","t","e","s",":"," ","M","A","T","H"," ","1","0","5","0",".","\n">>,
      <<"M","A","T","H"," ","1","0","5","0","."," ","C","o","l","l","e","g","e"," ","A","l","g","e","b","r","a","."," ","4"," ","C","r","e","d","i","t","s","\n","M","a","s","t","e","r"," ","o","f"," ","A","r","t","s",","," ","b","a","c","h","e","l","o","r"," ","o","f"," ","s","c","i","e","n","c","e","\n">>,
      <<"C","S"," ","1","4","0","0","."," ","C","o","d","i","n","g"," ","B","a","s","i","c","s",".","\n","S","e","e"," ","M","A","T","H"," ","1","0","5","0"," ","o","r"," ","h","i","g","h","e","r",".","\n","D","a","t","a"," ","M","i","n","o","r","\n">> }
PageUrls == { <<"/","c","s">>, <<"/","m","a","t","h","-","e","d","/">>, <<>> }

\* The most pages the crawl has stored.
MaxPages == 2

CrawledPages ==
    UNION {[1..n -> [content : PageContents, url : PageUrls]] : n \in 0..MaxPages}

\* builder._extract_academic_data()
CallExtractAcademicData ==
    /\ req = NoCall
    /\ \E pages \in CrawledPages :
          \E set_order \in SetOrders :
              /\ req' = [op |-> "extract_academic_data", pages |-> pages,
                         set_order |-> set_order]
              /\ out' = [op |-> "extract_academic_data",
                         academic_data |-> ExtractAcademicData(pages, set_order)]
    /\ UNCHANGED <<graphVars, buildVars, storeVars>>

NextPages ==
    \/ CallExtractAcademicData
    \/ Return

SpecPages == Init /\ [][NextPages]_vars

-----------------------------------------------------------------------------
(* Extraction calls on page text *)

\* The examples of the catalog help text.
ExampleWithSection == <<"P","r","e","r","e","q","u","i","s","i","t","e","s",":"," ","C","S"," ","1","4","0","0"," ","a","n","d"," ","M","A","T","H"," ","1","0","5","0",".">>

ExampleWithoutSection == <<"S","e","e"," ","a","l","s","o"," ","C","S"," ","1","4","0","0"," ","f","o","r"," ","r","e","l","a","t","e","d"," ","c","o","n","t","e","n","t",".">>

\* Sentences of course descriptions.
DescriptionSentences ==
    { ExampleWithSection,
      ExampleWithoutSection,
      <<"P","r","e","r","e","q",":"," ","c","s"," ","1","4","1","0",".">>,
      <<"R","e","q","u","i","r","e","d",":"," ","M","A","T","H"," ","1","2","1","0","A"," ","o","r"," ","M","A","T","H"," ","1","0","5","0">>,
      <<"S","u","c","c","e","s","s","f","u","l"," ","c","o","m","p","l","e","t","i","o","n"," ","o","f"," "," ","C","S"," ","2","4","2","0">>,
      <<"M","A","T","H"," ","1","0","5","0"," ","(","G","r","a","d","e"," ","C"," ","o","r"," ","h","i","g","h","e","r",")">>,
      <<"P","H","Y","S"," ","2","2","1","0"," ","o","r"," ","h","i","g","h","e","r",".">>,
      <<"P","r","e","r","e","q","u","i","s","i","t","e",":"," ","n","o","n","e",".">>,
      <<"X","M","A","T","H"," ","1","0","1","0"," ","o","r"," ","h","i","g","h","e","r">>,
      <<"C","o","r","e","q","u","i","s","i","t","e",":"," ","C","S"," ","1","4","0","5",".">>,
      <<"A","n"," ","i","n","t","r","o","d","u","c","t","i","o","n"," ","t","o"," ","p","r","o","g","r","a","m","m","i","n","g",".">>,
      <<"P","r","e","r","e","q","u","i","s","i","t","e","s",":"," ","C","S"," ","1","4","0","0"," ","a","n","d"," ","1","0","5","0",".">> }

\* Page lines whose only match _is_valid_course_code rejects: a semester and
\* year, a common word, a year-like number, a short, a numeric and an empty
\* title, a facility.
RejectedLines ==
    { <<"F","A","L","L"," ","2","0","2","4","."," ","R","e","g","i","s","t","r","a","t","i","o","n"," ","o","p","e","n","s"," ","s","o","o","n",".","\n">>,
      <<"T","H","E"," ","1","2","3","4","."," ","S","o","m","e","t","h","i","n","g"," ","e","l","s","e"," ","h","e","r","e",".","\n">>,
      <<"C","S"," ","2","0","2","4","."," ","S","p","e","c","i","a","l"," ","T","o","p","i","c","s",".","\n">>,
      <<"C","S"," ","1","4","1","0","."," ","L","a","b",".","\n">>,
      <<"C","S"," ","1","4","2","0","."," ","1","2","3","4","5",".","\n">>,
      <<"C","S"," ","2","4","5","0","."," "," ",".","\n">>,
      <<"P","E"," ","1","0","1","0","."," ","W","e","l","l","n","e","s","s"," ","C","e","n","t","e","r"," ","A","c","t","i","v","i","t","i","e","s",".","\n">>,
      <<"C","S"," ","4","9","9","0","."," ","C","h","a","l","l","e","n","g","e","s"," ","i","n"," ","C","o","m","p","u","t","i","n","g",".","\n">> }

\* Catalog entries and other lines of a crawled page.
ContentLines ==
    { <<"C","S"," ","1","4","0","0","."," ","F","u","n","d","a","m","e","n","t","a","l","s"," ","o","f"," ","P","r","o","g","r","a","m","m","i","n","g","."," ","3"," ","C","r","e","d","i","t","s","\n","P","r","e","r","e","q","u","i","s","i","t","e","s",":"," ","M","A","T","H"," ","1","0","5","0",".","\n">>,
      <<"C","S"," ","3","1","5","0","."," ","C","o","m","p","u","t","e","r"," ","O","r","g","a","n","i","z","a","t","i","o","n","."," ","4"," ","H","o","u","r","s","\n">>,
      <<"M","A","T","H"," ","5","0","0","0","."," ","G","r","a","d","u","a","t","e"," ","A","n","a","l","y","s","i","s",".","\n">>,
      <<"c","s"," ","1","4","0","0","."," ","l","o","w","e","r"," ","c","a","s","e"," ","p","r","e","f","i","x",".","\n">>,
      <<"A","B","C","D","E"," ","1","2","3","4","."," ","L","o","n","g"," ","p","r","e","f","i","x"," ","h","e","r","e",".","\n">>,
      <<"M","A","T","H"," ","1","0","5","0","."," ","C","o","l","l","e","g","e"," ","A","l","g","e","b","r","a","."," ","4"," ","c","r","e","d","i","t","s","\n">> }
    \cup RejectedLines

\* The longest description and page, in sentences and in lines.
MaxSentences == 2
MaxLines == 2

\* Texts of one to n pieces of S, joined by sep.
RECURSIVE Joined(_, _, _)
Joined(S, sep, n) ==
    IF n = 1 THEN S
    ELSE LET shorter == Joined(S, sep, n - 1)
         IN  shorter \cup {t \o sep \o s : <<t, s>> \in shorter \X S}

Descriptions == Joined(DescriptionSentences, <<" ">>, MaxSentences)
Contents == Joined(ContentLines, <<>>, MaxLines)

\* builder._extract_prerequisites(description)
CallExtractPrerequisites ==
    /\ req = NoCall
    /\ \E description \in Descriptions :
          /\ req' = [op |-> "extract_prerequisites", description |-> description]
          /\ out' = [op |-> "extract_prerequisites",
                     prerequisites |-> ExtractPrerequisites(description)]
    /\ UNCHANGED <<graphVars, buildVars, storeVars>>

\* builder._extract_courses_from_content(content, url)
CallExtractCourses ==
    /\ req = NoCall
    /\ \E content \in Contents :
          /\ req' = [op |-> "extract_courses", content |-> content]
          /\ out' = [op |-> "extract_courses",
                     courses |-> ExtractCoursesFromContent(content)]
    /\ UNCHANGED <<graphVars, buildVars, storeVars>>

NextExtract ==
    \/ CallExtractPrerequisites
    \/ CallExtractCourses
    \/ Return

SpecExtract == Init /\ [][NextExtract]_vars

-----------------------------------------------------------------------------
(* Properties of the planner *)

\* p is a direct prerequisite of c in the graph.
PrereqEdge(p, c) ==
    CopiesIn(Rel("PREREQUISITE_FOR", Node("Course", p), Node("Course", c)), rels) > 0

InGraph(c) == CopiesIn(Node("Course", c), nodes) > 0

GraphCourses == {n.key : n \in {x \in BagToSet(nodes) : x.label = "Course"}}

\* The graph holds the three courses with CS 1400 prerequisite of CS 1410 and
\* CS 1410 prerequisite of CS 2420, and no other prerequisite.
ChainGraph ==
    /\ GraphCourses = PlanCodes
    /\ \A p, c \in PlanCodes :
          PrereqEdge(p, c) <=> (<<p, c>> \in {<<PlanOrder[1], PlanOrder[2]>>,
                                              <<PlanOrder[2], PlanOrder[3]>>})

\* The direct prerequisites of the course at position i of `list` that are not
\* among the courses found in the graph at positions before i.
MissingAt(list, i) ==
    {p \in GraphCourses : PrereqEdge(p, list[i])}
        \ {list[j] : j \in {k \in 1..(i - 1) : InGraph(list[k])}}

ViolatingPositions(list) == {i \in 1..Len(list) : MissingAt(list, i) # {}}

\* C4: validate_course_sequence records one violation per position whose
\* course lacks a direct prerequisite among the courses found before it, in
\* list order, each listing exactly the missing prerequisites; valid says that
\* there is none.  [CS 2420, CS 1400, CS 1410] on the chain reports CS 2420
\* missing CS 1410 and nothing else; [CS 1400, CS 1410, CS 2420] reports none.
C4_ValidateSequence ==
    (out # NoCall /\ out.op = "validate") =>
        LET list == req.course_codes
            bad == ViolatingPositions(list)
            Rank(i) == Cardinality({j \in bad : j <= i})
        IN  /\ Len(out.violations) = Cardinality(bad)
            /\ \A i \in bad :
                  out.violations[Rank(i)] =
                      [course |-> list[i],
                       missing_prerequisites |-> MissingAt(list, i)]
            /\ out.valid = (bad = {})
            /\ (ChainGraph /\ list = <<PlanOrder[3], PlanOrder[1], PlanOrder[2]>>) =>
                  out.violations = <<[course |-> PlanOrder[3],
                                      missing_prerequisites |-> {PlanOrder[2]}]>>
            /\ (ChainGraph /\ list = PlanOrder) => out.valid

\* [CS 2420, CS 1400, CS 1410] was validated on the chain and found invalid.
C4_Witness ==
    /\ ChainGraph
    /\ req = [op |-> "validate",
              course_codes |-> <<PlanOrder[3], PlanOrder[1], PlanOrder[2]>>]
    /\ ~out.valid
    /\ Len(out.violations) = 1

\* C5: in the order _topological_sort returns, a direct prerequisite stands
\* before the course that requires it; on the chain every target list that
\* names the three courses is ordered CS 1400, CS 1410, CS 2420.
C5_TopologicalOrder ==
    (out # NoCall /\ out.op = "recommend") =>
        LET order == out.sequence
        IN  /\ \A i, j \in 1..Len(order) :
                  PrereqEdge(order[i], order[j]) => i < j
            /\ (ChainGraph /\ Range(req.target_courses) = PlanCodes) =>
                  order = PlanOrder

\* A target list that names CS 2420 before its prerequisites was sorted on the
\* chain.
C5_Witness ==
    /\ ChainGraph
    /\ out # NoCall
    /\ out.op = "recommend"
    /\ req.target_courses = <<PlanOrder[3], PlanOrder[2], PlanOrder[1]>>
    /\ out.sequence = PlanOrder

\* The semester-by-semester plan of a recommend call, planner or tool.
PlanOf(o) ==
    IF o.op = "recommend" THEN o.recommended_sequence
    ELSE [i \in 1..Len(o.semester_sequence) |-> o.semester_sequence[i].courses]

\* C6: every course of the plan is placed in a strictly later semester than
\* each of its direct prerequisites in the plan.
C6_PrerequisiteInEarlierSemester ==
    (out # NoCall /\ out.op \in {"recommend", "tool_recommend"}) =>
        LET plan == PlanOf(out)
        IN  \A s1, s2 \in 1..Len(plan) :
                \A p \in Range(plan[s1]), c \in Range(plan[s2]) :
                    PrereqEdge(p, c) => s1 < s2

SemesterCredits(semester) == SumCredits(semester, 1)

\* A new semester is started exactly when adding the next course of the order
\* to the running semester would exceed the cap.
GreedyBoundaries(plan, cap) ==
    /\ \A s \in 1..Len(plan) : plan[s] # <<>>
    /\ \A s \in 2..Len(plan) :
          SemesterCredits(plan[s - 1]) + CreditsOf(plan[s][1]) > cap
    /\ \A s \in 1..Len(plan) :
          \A k \in 2..Len(plan[s]) :
              SemesterCredits(SubSeq(plan[s], 1, k)) <= cap

\* C8: the credits of each semester sum to at most the cap; a new semester is
\* started exactly when adding the next course would exceed the cap.
C8_SemesterWithinCap ==
    (out # NoCall /\ out.op = "recommend") =>
        LET plan == out.recommended_sequence
            cap == req.max_credits_per_semester
        IN  /\ \A s \in 1..Len(plan) : SemesterCredits(plan[s]) <= cap
            /\ GreedyBoundaries(plan, cap)

\* C8, amended: the credits of each semester sum to at most the cap unless the
\* semester holds a single course whose own credits exceed the cap; a new
\* semester is started exactly when adding the next course would exceed the cap.
C8_SemesterWithinCapOrSingle ==
    (out # NoCall /\ out.op = "recommend") =>
        LET plan == out.recommended_sequence
            cap == req.max_credits_per_semester
        IN  /\ \A s \in 1..Len(plan) :
                  \/ SemesterCredits(plan[s]) <= cap
                  \/ Len(plan[s]) = 1 /\ CreditsOf(plan[s][1]) > cap
            /\ GreedyBoundaries(plan, cap)

\* A plan with a full semester of two courses and a semester of one course
\* that alone exceeds the cap.
C8_Witness ==
    /\ out # NoCall
    /\ out.op = "recommend"
    /\ \E s \in 1..Len(out.recommended_sequence) :
          /\ Len(out.recommended_sequence[s]) = 1
          /\ SemesterCredits(out.recommended_sequence[s]) > req.max_credits_per_semester
    /\ \E s \in 1..Len(out.recommended_sequence) :
          Len(out.recommended_sequence[s]) >= 2

\* C9: the plan the tool returns has at most max_semesters semesters.
C9_AtMostMaxSemesters ==
    (out # NoCall /\ out.op = "tool_recommend") =>
        /\ Len(out.semester_sequence) <= req.max_semesters
        /\ out.estimated_semesters <= req.max_semesters

\* What the extracted course records say of the completed courses: credits,
\* upper-division credits (number 3000 or higher), disciplines (prefixes).
RecordCompleted(completed_courses) ==
    LET found == SelectSeq(completed_courses, InGraph)
        IsUpper(c) == c[2] >= 3000
    IN  [credits |-> SumCredits(found, 1),
         upper_division_credits |-> SumCredits(SelectSeq(found, IsUpper), 1),
         disciplines |-> {found[i][1] : i \in 1..Len(found)}]

\* C7: ready_to_graduate only when the completed courses reach 120 credits,
\* 40 upper-division credits and 3 disciplines; with 119 completed credits it
\* is false and one credit remains; with 125 credits, 45 upper-division
\* credits and 4 disciplines completed it is true.
C7_ReadyOnlyWhenCompleted ==
    (out # NoCall /\ out.op = "analyze") =>
        LET done == RecordCompleted(req.completed_courses)
        IN  /\ out.ready_to_graduate =>
                  /\ done.credits >= RequiredCredits
                  /\ done.upper_division_credits >= RequiredUpperDivision
                  /\ Cardinality(done.disciplines) >= RequiredDisciplines
            /\ done.credits = 119 =>
                  /\ ~out.ready_to_graduate
                  /\ out.iap_requirements.total_credits.remaining = 1
            /\ (/\ done.credits = 125
                /\ done.upper_division_credits = 45
                /\ Cardinality(done.disciplines) = 4) =>
                  out.ready_to_graduate

\* The list without the codes that are not in the graph.
FoundOnly(list) == SelectSeq(list, InGraph)

\* C11: for codes that are not in the graph every planning query returns a
\* result, and the codes contribute nothing: validate and analyze report what
\* they report for the list without them (zero credits and no discipline when
\* no listed code is in the graph), recommend leaves them out of the plan, and
\* the prerequisite chain and the alternatives of such a code are empty.
C11_MissingCoursesContributeNothing ==
    (out # NoCall) =>
        /\ out.op = "validate" =>
              LET list == req.course_codes
                  known == ValidateCourseSequence(FoundOnly(list))
              IN  /\ out.statistics = known.statistics
                  /\ out.violations = known.violations
                  /\ \A c \in Range(list) :
                        ~InGraph(c) =>
                            \A i \in 1..Len(out.violations) : out.violations[i].course # c
                  /\ FoundOnly(list) = <<>> =>
                        /\ out.valid
                        /\ out.statistics.total_courses = 0
                        /\ out.statistics.total_credits = 0
                        /\ out.statistics.disciplines = {}
        /\ out.op = "analyze" =>
              LET known == AnalyzeDegreeProgress(FoundOnly(req.completed_courses),
                                                 FoundOnly(req.target_courses))
              IN  /\ out.completed.credits = known.completed.credits
                  /\ out.completed.disciplines = known.completed.disciplines
                  /\ out.remaining.credits = known.remaining.credits
                  /\ out.totals = known.totals
                  /\ out.iap_requirements = known.iap_requirements
                  /\ FoundOnly(req.completed_courses) = <<>> =>
                        /\ out.completed.credits = 0
                        /\ out.completed.disciplines = {}
                  /\ FoundOnly(req.target_courses) = <<>> =>
                        out.remaining.credits = 0
        /\ out.op = "recommend" =>
              /\ \A s \in 1..Len(out.recommended_sequence) :
                    \A c \in Range(out.recommended_sequence[s]) : InGraph(c)
              /\ \A c \in Range(out.courses) : InGraph(c)
              /\ out.total_credits =
                    PlannerRecommend(FoundOnly(req.target_courses),
                                     req.max_credits_per_semester,
                                     DefaultMaxSemesters).total_credits
        /\ (out.op = "chain" /\ ~InGraph(req.course_code)) => out.paths = <<>>
        /\ (out.op = "alternatives" /\ ~InGraph(req.course_code)) =>
              out.alternatives = <<>>

\* A list that names a course of the graph, with credits, after a code that is
\* not in the graph was validated; the graph has prerequisite relationships.
C11_Witness ==
    /\ out # NoCall
    /\ out.op = "validate"
    /\ Len(req.course_codes) = 2
    /\ ~InGraph(req.course_codes[1])
    /\ InGraph(req.course_codes[2])
    /\ out.statistics.total_credits > 0
    /\ rels # EmptyBag

RECURSIVE RecordCredits(_)
\* The summed credits of the course records of S, as the builder stored them.
RecordCredits(S) ==
    IF S = {} THEN 0
    ELSE LET c == CHOOSE x \in S : TRUE
         IN  courseProps[c].credits + RecordCredits(S \ {c})

\* The listed courses found in the graph, those numbered 3000 or higher, and
\* the department prefixes of the found ones.
FoundIn(list) == {c \in Range(list) : InGraph(c)}
UpperDivisionIn(list) == {c \in FoundIn(list) : courseProps[c].number >= 3000}
PrefixesIn(list) == {courseProps[c].prefix : c \in FoundIn(list)}

\* C25: on a graph the builder produced, the statistics of validate, recommend
\* and analyze agree with the course records: the upper-division credits are
\* the summed credits of the listed courses found in the graph that are
\* numbered 3000 or higher, and the discipline count is the number of distinct
\* department prefixes of the found courses.
C25_StatisticsAgreeWithRecords ==
    /\ out.op = "validate" =>
          /\ out.statistics.upper_division_credits
                = RecordCredits(UpperDivisionIn(req.course_codes))
          /\ Cardinality(out.statistics.disciplines)
                = Cardinality(PrefixesIn(req.course_codes))
    /\ out.op = "recommend" =>
          /\ out.upper_division_credits
                = RecordCredits(UpperDivisionIn(req.target_courses))
          /\ Cardinality(out.disciplines)
                = Cardinality(PrefixesIn(req.target_courses))
    /\ out.op = "analyze" =>
          /\ out.completed.upper_division_credits
                = RecordCredits(UpperDivisionIn(req.completed_courses))
          /\ Cardinality(out.completed.disciplines)
                = Cardinality(PrefixesIn(req.completed_courses))

RECURSIVE ReachIn(_, _, _, _)
\* One to k prerequisite relationships lead from a to b through courses of T.
ReachIn(T, a, b, k) ==
    /\ k > 0
    /\ \/ PrereqEdge(a, b)
       \/ \E x \in T : PrereqEdge(a, x) /\ ReachIn(T, x, b, k - 1)

\* x lies on a prerequisite cycle within T (a self-loop is one).
OnCycleIn(T, x) == ReachIn(T, x, x, Cardinality(T))

\* c lies on a prerequisite cycle within T or depends, through prerequisites
\* within T, on a course that does.
HeldByCycle(T, c) ==
    \E x \in T : OnCycleIn(T, x) /\ (x = c \/ ReachIn(T, x, c, Cardinality(T)))

\* The order _topological_sort returned to the last recommend call.
SortedTargets == IF out.op = "recommend" THEN out.sequence ELSE out.plan.sequence

\* C22: _topological_sort returns for every target list and every
\* prerequisite relation, cyclic ones and self-loops included; its output
\* holds each target course at most once and holds exactly the targets that
\* are neither on a prerequisite cycle within the targets nor dependent,
\* through prerequisites within the targets, on a course on such a cycle.
C22_TopologicalSortDropsCycles ==
    (out.op \in {"recommend", "tool_recommend"}) =>
        LET T == Range(req.target_courses)
        IN  /\ \A i, j \in 1..Len(SortedTargets) :
                  SortedTargets[i] = SortedTargets[j] => i = j
            /\ Range(SortedTargets) = {c \in T : ~HeldByCycle(T, c)}

\* Three targets were sorted: one with a self-loop, one that depends on it
\* without being on a cycle, and one that is free and alone in the output.
C22_Witness ==
    /\ out.op = "recommend"
    /\ Cardinality(Range(req.target_courses)) = 3
    /\ Len(out.sequence) = 1
    /\ \E a, b \in Range(req.target_courses) :
          /\ PrereqEdge(a, a)
          /\ PrereqEdge(a, b)
          /\ ~OnCycleIn(Range(req.target_courses), b)
          /\ b \notin Range(out.sequence)

\* The courses of the semesters of a tool answer.
SemesterGroups(answer) ==
    [i \in 1..Len(answer.semester_sequence) |-> answer.semester_sequence[i].courses]

\* C30: max_semesters has no influence on how the recommend_course_sequence
\* tool packs credits into semesters: calls that differ only in max_semesters
\* give the same semesters, the ones of the planner's default cap of 15
\* credits per semester.
C30_MaxSemestersLeavesCreditCap ==
    out.op = "tool_recommend" =>
        /\ \A max_semesters \in SemesterChoices :
              SemesterGroups(ToolRecommend(req.target_courses, max_semesters))
                  = SemesterGroups(out)
        /\ SemesterGroups(out) =
               PlannerRecommend(req.target_courses, DefaultMaxCredits,
                                DefaultMaxSemesters).recommended_sequence

-----------------------------------------------------------------------------
(* Properties of the prerequisite chain *)

\* The paths of PREREQUISITE_FOR relationships that end at course_code and
\* have between 1 and max_depth relationships, none of them twice.
PathsWithin(course_code, max_depth) ==
    PathLayers({<<p, course_code>> :
                   p \in {q \in GraphCourses : PrereqEdge(q, course_code)}},
               max_depth)

\* The course paths of the returned PrerequisitePath records.
ReturnedPaths == {out.paths[i].path : i \in 1..Len(out.paths)}

\* C21: get_prerequisite_chain returns exactly the paths that end at the
\* course and have between 1 and max_depth relationships, each once, for
\* every max_depth >= 1, and the empty list when there is none.
C21_ChainReturnsPathsWithinDepth ==
    (req # NoCall /\ req.op = "chain") =>
        /\ ReturnedPaths = PathsWithin(req.course_code, req.max_depth)
        /\ Len(out.paths) = Cardinality(ReturnedPaths)

RECURSIVE CreditsOnPath(_)
\* The credits the Course nodes of a path carry, added up.
CreditsOnPath(path) ==
    IF path = <<>> THEN 0
    ELSE courseProps[Head(path)].credits + CreditsOnPath(Tail(path))

\* The least integer not below a / 2.
CeilHalf(a) == (a + 1) \div 2

\* C29: every path get_prerequisite_chain returns carries semesters_needed =
\* ceil((pathLength + 1) / 2), pathLength being the number of prerequisite
\* relationships on the path, and total_credits = the sum of the credits of
\* all courses on the path.
C29_SemestersAndCreditsOfPath ==
    out.op = "chain" =>
        \A i \in 1..Len(out.paths) :
            /\ out.paths[i].semesters_needed = CeilHalf(Len(out.paths[i].path))
            /\ out.paths[i].total_credits = CreditsOnPath(out.paths[i].path)

-----------------------------------------------------------------------------
(* Properties of the population runs *)

PopulationOps ==
    {"populate_supabase_tables", "populate_all_tables", "populate_supabase_backup"}

PopulationDone == out # NoCall /\ out.op \in PopulationOps

IsDryRun == "dry_run" \in DOMAIN req /\ req.dry_run

UpsertOf ==
    [academic_departments |-> "upsert_departments",
     academic_courses |-> "upsert_courses",
     academic_programs |-> "upsert_programs"]

Extracted ==
    [academic_departments |-> crawled.departments,
     academic_courses |-> crawled.courses,
     academic_programs |-> crawled.programs]

\* A call of the run on the table raised.
WriteFailed(table) ==
    \E n \in 1..out.calls[UpsertOf[table]] : <<UpsertOf[table], n>> \in req.failures

\* C12: when a store call raises while a population run writes one entity
\* type, the run still attempts the other entity types that have records to
\* write, and ends with a result whose error list records the failure.
C12_FailureDoesNotStopOtherTypes ==
    PopulationDone =>
        \A table \in Tables :
            WriteFailed(table) =>
                /\ \A other \in Tables \ {table} :
                      (Extracted[other] # <<>> /\ tablesBefore[other] = EmptyBag)
                          => out.calls[UpsertOf[other]] > 0
                /\ "statistics" \in DOMAIN out
                /\ out.statistics.errors # <<>>

\* The extracted records of the table whose key is in the store's key column.
PresentBefore(table, key_column) ==
    LET records == Extracted[table]
        stored == Column([tables |-> tablesBefore], table, key_column)
        Key(r) == CASE table = "academic_departments" -> r.prefix
                    [] table = "academic_courses" -> r.code
                    [] OTHER -> r.name
    IN  {i \in 1..Len(records) : Key(records[i]) \in stored}

\* C13: a tool run with clear_existing = False in which no store call raises
\* skips exactly the extracted departments, courses and programs whose key
\* (department prefix, course code, program key) is in the store, and counts
\* them in duplicates_skipped; when every key is in the store it inserts
\* nothing.
C13_PresentKeysSkipped ==
    (/\ PopulationDone
     /\ out.op = "populate_supabase_backup"
     /\ ~req.clear_existing
     /\ req.failures = {}) =>
        LET present == [academic_departments |->
                            PresentBefore("academic_departments", "prefix"),
                        academic_courses |->
                            PresentBefore("academic_courses", "course_code"),
                        academic_programs |->
                            PresentBefore("academic_programs", "program_code")]
        IN  /\ out.statistics.duplicates_skipped =
                  Cardinality(present["academic_departments"])
                  + Cardinality(present["academic_courses"])
                  + Cardinality(present["academic_programs"])
            /\ \A table \in Tables :
                  Cardinality(present[table]) = Len(Extracted[table])
                      => tables[table] = tablesBefore[table]

\* C14: a run with dry_run = True deletes nothing and upserts nothing: the
\* tables are what they were, for every clear_existing and batch_size.
C14_DryRunLeavesStore ==
    (PopulationDone /\ IsDryRun) =>
        /\ tables = tablesBefore
        /\ out.calls["delete"] = 0
        /\ \A table \in Tables : out.calls[UpsertOf[table]] = 0

\* A dry run with clear_existing on filled tables and records to write.
C14_Witness ==
    /\ PopulationDone
    /\ IsDryRun
    /\ req.clear_existing
    /\ req.batch_size = 1
    /\ \A table \in Tables :
          tablesBefore[table] # EmptyBag /\ Extracted[table] # <<>>

\* C15: the inserted counts a dry run of the tool reports are the counts the
\* live run on the same tables and content reports, for every batch_size.
C15_DryRunCountsLikeLive ==
    (/\ PopulationDone
     /\ out.op = "populate_supabase_backup"
     /\ IsDryRun
     /\ req.failures = {}) =>
        LET live == ToolPopulate(crawled, tablesBefore, req.clear_existing,
                                 req.batch_size, FALSE, {}).result.statistics
        IN  /\ out.statistics.departments_inserted = live.departments_inserted
            /\ out.statistics.courses_inserted = live.courses_inserted
            /\ out.statistics.programs_inserted = live.programs_inserted

\* C16: after a run wrote the programs to an empty table, every stored
\* program_name is the first 500 characters of an extracted name, every
\* extracted name is stored so, and names that agree on their first 500
\* characters are one row.
C16_ProgramNameFirst500 ==
    (/\ PopulationDone
     /\ ~IsDryRun
     /\ req.failures = {}
     /\ tablesBefore["academic_programs"] = EmptyBag) =>
        LET rows == tables["academic_programs"]
            names == {Truncate(crawled.programs[i].name, ProgramNameLimit) :
                         i \in 1..Len(crawled.programs)}
        IN  /\ \A r \in BagToSet(rows) : r.program_name \in names
            /\ \A name \in names :
                  BagCardinality([r \in {x \in BagToSet(rows) : x.program_name = name}
                                     |-> rows[r]]) = 1

\* The run was asked to clear the existing rows.
ClearRequested == "clear_existing" \in DOMAIN req /\ req.clear_existing

\* Every row the table held when the run began is still in it.
RowsKept(table) ==
    \A r \in BagToSet(tablesBefore[table]) :
        CopiesIn(r, tables[table]) >= CopiesIn(r, tablesBefore[table])

\* C24: a population run that was not asked to clear the existing rows, the
\* one of a graph build included, removes no department, course or program
\* row from the relational tables.
C24_NoDeleteWithoutClear ==
    (PopulationDone /\ ~ClearRequested) => \A table \in Tables : RowsKept(table)

\* The department names the graph store and the relational store hold for a
\* prefix.
NodeNames(prefix) ==
    IF /\ CopiesIn(Node("Department", prefix), nodes) > 0
       /\ prefix \in DOMAIN deptProps
    THEN {deptProps[prefix].name} ELSE {}
RowNames(prefix) ==
    {r.department_name :
        r \in {x \in BagToSet(tables.academic_departments) : x.prefix = prefix}}

\* C26: after a full build in which no store call failed, the Department node
\* and the academic_departments row of every department prefix carry the same
\* department name, also when several department names share one prefix.
C26_DepartmentsMirrored ==
    (out.op = "build_academic_graph" /\ req.failures = {}) =>
        \A prefix \in Prefixes : NodeNames(prefix) = RowNames(prefix)

-----------------------------------------------------------------------------
(* Properties of the extraction *)

\* The headers that open an explicit prerequisite section.
SectionHeaders ==
    { <<"P","r","e","r","e","q","u","i","s","i","t","e",":">>, <<"P","r","e","r","e","q","u","i","s","i","t","e","s",":">>, <<"P","r","e","r","e","q",":">>, <<"R","e","q","u","i","r","e","d",":">> }

\* description[i..j] reads as `code`: the prefix of the code in either case,
\* white space, and its number.
AppearsAt(description, i, j, code) ==
    LET n == Len(code)
        k == CHOOSE x \in 1..n : code[x] = " "
    IN  /\ \A x \in 1..(k - 1) : ToUpper(At(description, i + x - 1)) = code[x]
        /\ \A x \in (k + 1)..n : ToUpper(At(description, j - (n - x))) = code[x]
        /\ i + k - 1 <= j - (n - k)
        /\ \A y \in (i + k - 1)..(j - (n - k)) : description[y] \in Whitespace

\* description[i..j] lies in an explicit prerequisite section: a header ends
\* before it and no full stop stands between the header and position j.
InExplicitSection(description, i, j) ==
    \E header \in SectionHeaders : \E p \in 1..i :
        /\ p + Len(header) <= i
        /\ Literal(description, p, header, TRUE)
        /\ \A x \in (p + Len(header))..j : description[x] # "."

\* description[i..j] stands in a contextual cue: before "or higher" or
\* "(Grade X or higher)", or after "completion of".
InContextCue(description, i, j) ==
    \/ \E k \in (j + 2)..Len(description) :
          /\ \A x \in (j + 1)..(k - 1) : description[x] \in Whitespace
          /\ \/ Literal(description, k, <<"o","r"," ","h","i","g","h","e","r">>, TRUE)
             \/ /\ Literal(description, k, <<"(","G","r","a","d","e"," ">>, TRUE)
                /\ Literal(description, k + 8, <<" ","o","r"," ","h","i","g","h","e","r",")">>, TRUE)
    \/ \E k \in 1..(i - 1) :
          /\ Literal(description, k, <<"c","o","m","p","l","e","t","i","o","n"," ","o","f">>, TRUE)
          /\ k + 13 < i
          /\ \A x \in (k + 13)..(i - 1) : description[x] \in Whitespace

\* C17: _extract_prerequisites returns only codes that appear in the
\* description inside an explicit prerequisite section (after
\* "Prerequisite(s):", "Prereq:" or "Required:") or inside a contextual cue;
\* "Prerequisites: CS 1400 and MATH 1050." gives {CS 1400, MATH 1050} and
\* "See also CS 1400 for related content." gives nothing.
C17_PrerequisitesFromSectionOrCue ==
    req.op = "extract_prerequisites" =>
        LET description == req.description
        IN  /\ \A n \in 1..Len(out.prerequisites) :
                  \E i \in 1..Len(description) :
                      /\ ToUpper(description[i]) = out.prerequisites[n][1]
                      /\ \E j \in i..Len(description) :
                            /\ AppearsAt(description, i, j, out.prerequisites[n])
                            /\ \/ InExplicitSection(description, i, j)
                               \/ InContextCue(description, i, j)
            /\ description = ExampleWithSection =>
                  Range(out.prerequisites) = {<<"C","S"," ","1","4","0","0">>, <<"M","A","T","H"," ","1","0","5","0">>}
            /\ description = ExampleWithoutSection => out.prerequisites = <<>>

\* The two codes of the section example were returned.
C17_Witness ==
    /\ req.op = "extract_prerequisites"
    /\ req.description = ExampleWithSection
    /\ out.prerequisites = <<<<"C","S"," ","1","4","0","0">>, <<"M","A","T","H"," ","1","0","5","0">>>>

\* The description has an explicit prerequisite section: one of the headers
\* stands in it, in either case.
HasExplicitSection(description) ==
    \E header \in SectionHeaders : \E p \in 1..Len(description) :
        Literal(description, p, header, TRUE)

\* C28: when the description has a "Prerequisite(s):", "Prereq:" or
\* "Required:" section, _extract_prerequisites does not apply the contextual
\* cue patterns: every code it returns appears inside such a section.
C28_CuesOnlyWithoutSection ==
    (req.op = "extract_prerequisites" /\ HasExplicitSection(req.description)) =>
        \A n \in 1..Len(out.prerequisites) :
            \E i \in 1..Len(req.description) :
                /\ ToUpper(req.description[i]) = out.prerequisites[n][1]
                /\ \E j \in i..Len(req.description) :
                      /\ AppearsAt(req.description, i, j, out.prerequisites[n])
                      /\ InExplicitSection(req.description, i, j)

\* The text is 2-4 upper-case letters, one space and four digits.
IsCourseCode(code) ==
    \E n \in 2..4 :
        /\ Len(code) = n + 5
        /\ \A i \in 1..n : code[i] \in Upper
        /\ code[n + 1] = " "
        /\ \A i \in (n + 2)..(n + 5) : code[i] \in Digits

\* C18: no CourseRecord has a prefix of the denylist, a number that reads as
\* a year (19xx, 20xx), a title of fewer than 5 characters or of digits
\* only, or a title with a facility keyword; a page line that only has such
\* a match yields no record; every code produced is 2-4 upper-case letters,
\* one space and four digits.
C18_OnlyValidCourseCodes ==
    req.op = "extract_courses" =>
        /\ \A code \in DOMAIN out.courses :
              LET course == out.courses[code]
              IN  /\ course.code = code
                  /\ IsCourseCode(code)
                  /\ code = course.prefix \o <<" ">> \o course.number
                  /\ course.prefix \notin InvalidPrefixes
                  /\ SubSeq(course.number, 1, 2) \notin {<<"1","9">>, <<"2","0">>}
                  /\ Len(course.title) >= 5
                  /\ \E i \in 1..Len(course.title) : course.title[i] \notin Digits
                  /\ \A keyword \in FacilityKeywords :
                        \A p \in 1..Len(course.title) :
                            UpperText(Slice(course.title, p, p + Len(keyword) - 1))
                                # UpperText(keyword)
        /\ req.content \in RejectedLines => out.courses = <<>>

\* A page with a match that _is_valid_course_code rejects and a record all
\* the same.
C18_Witness ==
    /\ req.op = "extract_courses"
    /\ \E m \in NextCourse(req.content, 1) :
          ~IsValidCourseCode(m.prefix, m.number, Strip(m.title))
    /\ DOMAIN out.courses # {}

\* C19: a CourseRecord is lower_division exactly when its number is below
\* 3000; CS 1400 is lower division and CS 3150 is upper division.
C19_LowerDivisionBelow3000 ==
    req.op = "extract_courses" =>
        \A code \in DOMAIN out.courses :
            LET course == out.courses[code]
            IN  /\ course.number[1] \in {"0", "1", "2"}
                      <=> course.level = "lower_division"
                /\ code = <<"C","S"," ","1","4","0","0">> => course.level = "lower_division"
                /\ code = <<"C","S"," ","3","1","5","0">> => course.level = "upper_division"

\* CS 1400 and CS 3150 were both extracted from one page.
C19_Witness ==
    /\ req.op = "extract_courses"
    /\ {<<"C","S"," ","1","4","0","0">>, <<"C","S"," ","3","1","5","0">>} \subseteq DOMAIN out.courses
    /\ out.courses[<<"C","S"," ","1","4","0","0">>].level = "lower_division"
    /\ out.courses[<<"C","S"," ","3","1","5","0">>].level = "upper_division"

\* C20: a course numbered 5000 or above is classified graduate, and
\* upper_division is given to the numbers 3000-4999 only.
C20_GraduateFrom5000 ==
    req.op = "extract_courses" =>
        \A code \in DOMAIN out.courses :
            LET course == out.courses[code]
            IN  /\ course.number[1] \in {"5", "6", "7", "8", "9"}
                      => course.level = "graduate"
                /\ course.level = "upper_division"
                      => course.number[1] \in {"3", "4"}

-----------------------------------------------------------------------------
(* Properties of the extraction over pages *)

\* The largest position of a non-empty set.
Last(positions) == CHOOSE p \in positions : \A q \in positions : p >= q

RECURSIVE ValidMatches(_, _)
\* The matches of course_pattern from position p on that
\* _is_valid_course_code accepts, from left to right.
ValidMatches(content, p) ==
    The({IF next = {} THEN <<>>
         ELSE The({(IF IsValidCourseCode(m.prefix, m.number, Strip(m.title))
                    THEN <<m>> ELSE <<>>) \o ValidMatches(content, m.end) :
                      m \in next}) :
            next \in {NextCourse(content, p)}})

\* The record of the last accepted match of the page that has the code.
LastMatchRecord(content, code) ==
    The({CourseOfMatch(content,
                       ms[Last({k \in 1..Len(ms) :
                                   ms[k].prefix \o <<" ">> \o ms[k].number = code})]) :
            ms \in {ValidMatches(content, 1)}})

\* Dict d holds exactly the keys of the dicts per_page[1..], each with the
\* whole record of the last of them that has the key.
LastPageWins(d, per_page) ==
    /\ DOMAIN d = UNION {DOMAIN per_page[i] : i \in 1..Len(per_page)}
    /\ \A key \in DOMAIN d :
          d[key] = per_page[Last({i \in 1..Len(per_page) :
                                     key \in DOMAIN per_page[i]})][key]

\* What the extraction functions return for page i of the call.
PageCourses(i) == ExtractCoursesFromContent(req.pages[i].content)
PagePrograms(i) == ExtractProgramsFromContent(req.pages[i].content, req.pages[i].url)
PageDepartments(i) ==
    ExtractDepartmentsFromContent(req.pages[i].content, req.pages[i].url, req.set_order)

\* C27: after _extract_academic_data has processed the pages in order, each
\* course code, program name and department name maps to the whole record of
\* the last page that gives the key, and a course record is the one of the
\* last match of its code within that page; no key has a second entry.
C27_LastWriteWins ==
    (req.op = "extract_academic_data" /\ req.pages # <<>>) =>
        \A found \in {[i \in 1..Len(req.pages) |->
                          <<PageCourses(i), PagePrograms(i), PageDepartments(i)>>]} :
            /\ LastPageWins(out.academic_data.courses,
                            [i \in 1..Len(found) |-> found[i][1]])
            /\ LastPageWins(out.academic_data.programs,
                            [i \in 1..Len(found) |-> found[i][2]])
            /\ LastPageWins(out.academic_data.departments,
                            [i \in 1..Len(found) |-> found[i][3]])
            /\ \A i \in 1..Len(found) :
                  \A code \in DOMAIN found[i][1] :
                      found[i][1][code] = LastMatchRecord(req.pages[i].content, code)

\* Two pages were processed: both give a course code with different records,
\* the second gives it in two matches, and both give a department name with
\* different prefixes.
C27_Witness ==
    /\ req.op = "extract_academic_data"
    /\ Len(req.pages) = 2
    /\ \E code \in DOMAIN PageCourses(1) \cap DOMAIN PageCourses(2) :
          /\ PageCourses(1)[code] # PageCourses(2)[code]
          /\ out.academic_data.courses[code] = PageCourses(2)[code]
          /\ Cardinality({k \in 1..Len(ValidMatches(req.pages[2].content, 1)) :
                             ValidMatches(req.pages[2].content, 1)[k].prefix
                                 \o <<" ">>
                                 \o ValidMatches(req.pages[2].content, 1)[k].number
                                     = code}) = 2
    /\ \E name \in DOMAIN PageDepartments(1) \cap DOMAIN PageDepartments(2) :
          PageDepartments(1)[name].prefix # PageDepartments(2)[name].prefix

-----------------------------------------------------------------------------
(* Properties of the graph build *)

GraphNow == [nodes |-> nodes, rels |-> rels]

\* C1: a build that repeats, on the same academic_data, the build that
\* completed just before it ends with exactly the nodes and relationships it
\* started with: no node and no relationship is added or duplicated.
C1_BuildIdempotent ==
    (rerun /\ pc = "idle" /\ lastE # {}) => GraphNow = startGraph

\* A repeated build of two courses, one prerequisite of the other, in a
\* department with its program has completed.
C1_Witness ==
    /\ rerun
    /\ pc = "idle"
    /\ \E E \in lastE : Len(E.courses) = 2 /\ Len(E.programs) = 1
    /\ \E r \in BagToSet(rels) : r.type = "PREREQUISITE_FOR" /\ r.from # r.to
    /\ \E r \in BagToSet(rels) : r.type = "OFFERS_COURSE"
    /\ \E r \in BagToSet(rels) : r.type = "HAS_DEPARTMENT"

NoDanglingEdge ==
    \A r \in BagToSet(rels) :
        CopiesIn(r.from, nodes) > 0 /\ CopiesIn(r.to, nodes) > 0

\* The statement about to be sent names a node the store does not hold.
EndpointMissing ==
    \/ /\ pc = "link_prereqs"
       /\ LET pair == PrereqPairs(curE.courses, 1)[idx]
          IN  \/ CopiesIn(Node("Course", pair.prereq), nodes) = 0
              \/ CopiesIn(Node("Course", pair.course), nodes) = 0
    \/ /\ pc = "link_courses"
       /\ CopiesIn(Node("Department", curE.courses[idx].prefix), nodes) = 0
    \/ /\ pc = "link_programs"
       /\ CopiesIn(Node("Department",
                        ExtractDepartmentPrefix(curE.programs[idx].department)),
                   nodes) = 0

\* C2: in every state of a build, also the one an abort leaves, every
\* relationship joins two nodes the store holds; and a relationship statement
\* that names a prerequisite code or department prefix without a node changes
\* neither the nodes nor the relationships.
C2_NoDanglingEdge ==
    /\ []NoDanglingEdge
    /\ [][EndpointMissing => (nodes' = nodes /\ rels' = rels)]_vars

\* The prerequisite loop has passed a prerequisite code that has no node, and
\* the graph holds relationships.
C2_Witness ==
    /\ pc \in {"link_programs", "link_university"}
    /\ \E k \in 1..Len(PrereqPairs(curE.courses, 1)) :
          CopiesIn(Node("Course", PrereqPairs(curE.courses, 1)[k].prereq), nodes) = 0
    /\ rels # EmptyBag

\* C3: the graph holds at most one University node, one node per Department
\* prefix, Course code and Program name, and one relationship of a type
\* between an ordered pair of nodes.
C3_NoDuplicates ==
    /\ \A n \in BagToSet(nodes) : CopiesIn(n, nodes) = 1
    /\ \A r \in BagToSet(rels) : CopiesIn(r, rels) = 1
    /\ Cardinality({n \in BagToSet(nodes) : n.label = "University"}) <= 1

\* Two builds on different academic_data have completed and left courses,
\* departments, a program and relationships.
C3_Witness ==
    /\ builds = 2
    /\ pc = "idle"
    /\ lastE # {}
    /\ ~rerun
    /\ \A l \in {"University", "Department", "Course", "Program"} :
          \E n \in BagToSet(nodes) : n.label = l
    /\ Cardinality({n \in BagToSet(nodes) : n.label = "Department"}) = 2
    /\ Cardinality(BagToSet(rels)) >= 6

\* C10: no Course node has a PREREQUISITE_FOR relationship to itself.
C10_NoSelfLoop ==
    \A r \in BagToSet(rels) : r.type = "PREREQUISITE_FOR" => r.from # r.to

\* The loops of node upserts and the loops of relationship statements.
NodePhases == {"university", "departments", "courses", "programs"}
LinkPhases == {"link_courses", "link_prereqs", "link_programs", "link_university"}

\* The University and every department, course and program of academic_data E
\* have their node.
NodesUpserted(E) ==
    /\ CopiesIn(Node("University", UniversityName), nodes) > 0
    /\ \A i \in 1..Len(E.departments) :
          CopiesIn(Node("Department", E.departments[i].prefix), nodes) > 0
    /\ \A i \in 1..Len(E.courses) :
          CopiesIn(Node("Course", E.courses[i].code), nodes) > 0
    /\ \A i \in 1..Len(E.programs) :
          CopiesIn(Node("Program", E.programs[i].name), nodes) > 0

\* C23: in every run of build_academic_graph all node upserts of the run are
\* complete before the first relationship statement is issued: while
\* relationship statements are sent every entity of the run has its node, no
\* node statement follows a relationship statement, and no relationship
\* changes before the relationship loops; a run that leaves the node loops
\* without having completed them has ended and has created no relationship.
C23_NodesBeforeRelationships ==
    /\ [](pc \in LinkPhases => NodesUpserted(curE))
    /\ [][/\ pc \notin LinkPhases => rels' = rels
          /\ pc \in LinkPhases =>
                (nodes' = nodes /\ pc' \in LinkPhases \cup {"idle"})
          /\ (pc \in NodePhases /\ pc' \notin NodePhases) =>
                \/ pc' = "idle" /\ rels' = rels
                \/ pc' \in LinkPhases /\ NodesUpserted(curE)']_vars

\* The first build sends its prerequisite statements for two courses, a
\* department and a program, after it has created relationships.
C23_Witness ==
    /\ builds = 1
    /\ pc = "link_prereqs"
    /\ Len(curE.courses) = 2
    /\ Len(curE.departments) = 1
    /\ Len(curE.programs) = 1
    /\ rels # EmptyBag

====
